---- MODULE Spec2Model ----
(***************************************************************************)
(* State capture / injection engine of the replay analyzer                 *)
(* (tools/replay-analyzer: stateCapture.ts, compareCommits.ts,             *)
(* openfrontCheckout.ts).                                                  *)
(*                                                                         *)
(* The module holds several specifications over one set of variables.     *)
(*   SpecIds   : the nextID wrappers of the capture and injection passes   *)
(*   Spec      : compareCommits, both passes, registry, rng snapshots      *)
(*   SpecHooks : install / wrapped calls / cleanup of the entry points     *)
(* Each specification leaves the variables of the others untouched.       *)
(***************************************************************************)
EXTENDS Integers, Sequences, FiniteSets, TLC

(***************************************************************************)
(* Bounds of the model.                                                    *)
(***************************************************************************)
\* stream instances that call nextID in one pass
NumIdStreams == 2
\* identifier-generation calls of the reference pass
MaxRefIds == 3
\* identifier-generation calls of the comparison pass
MaxCmpIds == 4
\* streams one pass constructs
MaxStreams == 2
\* ticks of the replay
MaxTicks == 2
\* ticks a long replay runs past the spawn phase
TicksPastSpawn == 1
\* hook sets installed on one runtime, one after the other
MaxInstalls == 2
\* wrapped calls between an install and its cleanup
MaxHookCalls == 2
\* calls of getConfig in one pass
MaxCfgCalls == 2
\* operations on the registry and its streams in the unit exploration
MaxRngOps == 4
\* executions the engine schedules during init in one pass
MaxExecs == 3
\* executions in one addExecution call
MaxCallLen == 2

(***************************************************************************)
(* Program constants.                                                      *)
(***************************************************************************)
\* last tick of the spawn phase (game.ticks() <= 30, game.ticks() === 30)
SpawnPhaseTicks == 30

VARIABLES
  \* ---- identifier generation (SpecIds) ----
  idPhase,           \* "capture" | "inject" | "idle"
  cmpEngine,         \* engine version the comparison pass loads
  rngPos,            \* draw count of each live stream of the running engine
  capturedIds,       \* stateCapture.ts: capturedIds (closure of installStateCapture)
  playerIdSequence,  \* CapturedState.playerIdSequence
  idIndex,           \* compareCommits.ts: idIndex (closure of installStateInjection)
  warnings,          \* InjectionResult.warnings
  origCalls,         \* history: invocations of the original nextID
  wrappedCalls,      \* history: invocations of the wrapped nextID
  returnedIds,       \* history: values the wrapped nextID returned, in call order
  generatedIds       \* history: values the original nextID produced, in call order

idVars == <<idPhase, cmpEngine, rngPos, capturedIds, playerIdSequence, idIndex,
            origCalls, wrappedCalls, returnedIds, generatedIds>>

VARIABLES
  \* ---- compareCommits (Spec) ----
  pc,                \* position of compareCommits / runReplayWith*
  pass,              \* "ref" (runReplayWithCapture) | "cmp" (runReplayWithInjection)
  cpuProfile,        \* opts.cpuProfile
  numTicks,          \* loaded.turnsToRun.length
  rate,              \* draws each live stream makes per tick, per engine version
  profSession,       \* profSession !== null
  cpuProfilePath,    \* cpuProfilePath !== undefined
  pending,           \* the exception in flight in the running pass, or "none"
  rejection,         \* the error compareCommits rejected with, or "none"
  installed,         \* the hook sets whose wrappers are on the entry points
  installCalls,      \* history: calls of installStateCapture / installStateInjection
  cleanupCalls,      \* history: calls of cleanup, per pass
  simThrew,          \* history: simulateReplay of the pass threw
  passDone,          \* history: runReplayWith* of the pass has settled
  registry,          \* globalThis[Symbol.for("...PseudoRandom.registry")]
  streams,           \* every PseudoRandom instance constructed in this process
  tick,              \* game.ticks()
  rngSnapshotsByTick,       \* stateCapture.ts: closure of installStateCapture
  gameStateSnapshotTick0,   \* stateCapture.ts: closure of installStateCapture
  gameStateSnapshotTick30,  \* stateCapture.ts: closure of installStateCapture
  capturedState,     \* the CapturedState runReplayWithCapture returned
  callLog,           \* history: capture / restore / validate calls of each pass
  justRestored       \* history: the last step of the simulation ended in restoreRngSnapshot

orchVars == <<pc, pass, cpuProfile, numTicks, rate, profSession, cpuProfilePath,
              pending, rejection, installed, installCalls, cleanupCalls, simThrew,
              passDone, registry, streams, tick, rngSnapshotsByTick,
              gameStateSnapshotTick0, gameStateSnapshotTick30, capturedState,
              callLog, justRestored>>

VARIABLES
  \* ---- install / cleanup of the entry points (SpecInstall) ----
  hkStage,           \* "loaded" | "installed" | "cleaned" | "idle"
  hkKind,            \* the hook set installed last: "capture" | "injection"
  entry,             \* the function each entry point of the runtime holds
  originals,         \* the originals array of the installed hook set
  entryBefore,       \* history: entry when the hook set was installed
  hkInstalls,        \* history: hook sets installed so far
  hkCalls            \* history: wrapped calls since the install

installVars == <<hkStage, hkKind, entry, originals, entryBefore, hkInstalls, hkCalls>>

VARIABLES
  \* ---- the getConfig wrappers (SpecConfig) ----
  cfgPass,           \* "ref" | "cmp" | "idle"
  configValues,      \* stateCapture.ts: configValues (closure of installStateCapture)
  capturedConfig,    \* CapturedState.configValues
  cfgCalls,          \* history: calls of the wrapped getConfig in this pass
  lastCall           \* history: outcome of the last wrapped call

cfgVars == <<cfgPass, configValues, capturedConfig, cfgCalls, lastCall>>

VARIABLES
  \* ---- the registry and its streams on their own (SpecRng) ----
  shadow,            \* history: each stream as it is without any setState call
  sinceReset,        \* history: the streams constructed since the last reset
  rngHist            \* history: operations, resets and round trips so far

rngUnitVars == <<shadow, sinceReset, rngHist>>

VARIABLES
  \* ---- the init wrappers (SpecSpawn) ----
  spPhase,                     \* "ref" | "cmp" | "idle"
  spawnAssignmentsByPlayerId,  \* stateCapture.ts: closure of installStateCapture
  capturedSpawn,               \* CapturedState.spawnAssignmentsByPlayerId
  scheduled,         \* history: the executions handed to game.addExecution in this pass
  forwarded,         \* history: the executions the engine's addExecution received
  spCalls            \* history: intercepted and forwarded addExecution calls

spawnVars == <<spPhase, spawnAssignmentsByPlayerId, capturedSpawn, scheduled,
               forwarded, spCalls>>

VARIABLES
  \* ---- the game-state snapshots in detail (SpecValidate) ----
  vStage,            \* "capture0" | "capture30" | "validate0" | "validate30" | "done" |
                     \* "returned" | "idle"
  snapshotTick0,     \* CapturedState.gameStateSnapshotTick0 with its fields
  snapshotTick30,    \* CapturedState.gameStateSnapshotTick30 with its fields
  refObserved,       \* history: what the reference game showed at tick 0 and tick 30
  sameObserved,      \* history: the comparison game showed the same at tick 0, tick 30
  diffObserved,      \* history: the observables that differed at tick 0 and at tick 30
  appended,          \* history: the warnings each of the two validations appended
  vResult            \* the ComparisonResult compareCommits returned

validateVars == <<vStage, snapshotTick0, snapshotTick30, refObserved, sameObserved,
                  diffObserved, appended, vResult>>

VARIABLES
  \* ---- the loadTerrainMap wrappers (SpecTerrain) ----
  tPass,             \* "ref" | "cmp" | "done" | "idle"
  mapDataHash,       \* stateCapture.ts: mapDataHash (closure of installStateCapture)
  nationManifest,    \* stateCapture.ts: nationManifest (closure of installStateCapture)
  capturedMap,       \* CapturedState.mapDataHash and CapturedState.nationManifest
  tLoaded,           \* history: what the original loadTerrainMap returned, per pass
  tOutcome,          \* history: outcome of the last wrapped call
  tTick              \* history: ticks simulated after the terrain was loaded

terrainVars == <<tPass, mapDataHash, nationManifest, capturedMap, tLoaded, tOutcome, tTick>>

VARIABLES
  \* ---- command line (SpecArgs) ----
  argPc,             \* "parsing" | "returned" | "threw" | "usage" | "comparison" | "single" | "idle"
  argv,              \* process.argv.slice(2)
  args,              \* args.ts: args (the tokens not yet shifted)
  parsed,            \* args.ts: the locals of parseArgs, then its return value
  argError,          \* message of the Error thrown by parseArgs or by the main module
  comparisonRun,     \* the arguments compareCommits is called with
  replayGitCommit,   \* analyzeReplay.ts: replayGitCommit (null until the replay is read)
  mainLog            \* history: engine checkouts and passes started by the main module

argsVars == <<argPc, argv, args, parsed, argError, comparisonRun, replayGitCommit, mainLog>>

VARIABLES
  \* ---- lifetime of the addExecution wrapper (SpecInitWrap) ----
  iwPass,            \* "ref" | "cmp" | "idle"
  iwStage,           \* patchedInit: "before" | "inInit" | "returned" | "threw"
  addExecution,      \* game.addExecution: "original" | "patched" | "undefined"
  iwSpawnMap,        \* stateCapture.ts: spawnAssignmentsByPlayerId
  iwCaptured,        \* CapturedState.spawnAssignmentsByPlayerId
  iwInitCalls,       \* history: calls of originalInit in this pass
  iwHanded           \* history: the last game.addExecution call and what came of it

initWrapVars == <<iwPass, iwStage, addExecution, iwSpawnMap, iwCaptured, iwInitCalls, iwHanded>>

VARIABLES
  \* ---- the injection warning list on its way to the result (SpecWarnings) ----
  wPc,               \* "install" | "running" | "passReturned" | "returned" | "rejected" | "idle"
  wAtInstall,        \* content of the warnings array when runReplayWithInjection bound it
  wValidations,      \* validation calls made so far in the pass
  wLog,              \* history: every warning pushed in the pass, in push order, with its source
  injectionWarnings, \* runReplayWithInjection: injectionWarnings of the returned object
  resultWarnings     \* ComparisonResult.injectionWarnings

warnVars == <<wPc, wAtInstall, wValidations, wLog, injectionWarnings, resultWarnings>>

VARIABLES
  \* ---- the economy tracker (SpecEconomy) ----
  ecoTick,           \* afterTick calls made so far
  ecoPlayers,           \* createEconomyTracker: clientIDs of players, in the order of ensurePlayer
  clientIdByPlayerId, \* player id -> clientID, set by init
  totalsByClientId,  \* clientID -> EconomyTotals (the gold totals)
  prevGoldByClientId, \* clientID -> p.gold() at the previous tick
  prevGoldStatsByClientId, \* clientID -> GoldStats at the previous tick
  goldSourcesByClientId, \* clientID -> gold added so far by the caller named trains
  prevGoldSourcesByClientId \* clientID -> copy of goldSourcesByClientId at the previous tick

ecoVars == <<ecoTick, ecoPlayers, clientIdByPlayerId, totalsByClientId,
             prevGoldByClientId, prevGoldStatsByClientId, goldSourcesByClientId,
             prevGoldSourcesByClientId>>

vars == <<idVars, orchVars, installVars, cfgVars, rngUnitVars, spawnVars, validateVars,
          terrainVars, argsVars, initWrapVars, warnVars, ecoVars, warnings>>

\* what the actions of one specification leave alone
outsideIds == <<orchVars, installVars, cfgVars, rngUnitVars, spawnVars, validateVars,
                terrainVars, argsVars, initWrapVars, warnVars, ecoVars>>
outsideOrch == <<idVars, installVars, cfgVars, rngUnitVars, spawnVars, validateVars,
                 terrainVars, argsVars, initWrapVars, warnVars, ecoVars>>
outsideInstall == <<idVars, orchVars, cfgVars, rngUnitVars, spawnVars, validateVars,
                    terrainVars, argsVars, initWrapVars, warnVars, ecoVars>>
outsideConfig == <<idVars, orchVars, installVars, rngUnitVars, spawnVars, validateVars,
                   terrainVars, argsVars, initWrapVars, warnVars, ecoVars>>
outsideRngUnit == <<idVars, installVars, cfgVars, spawnVars, validateVars, terrainVars,
                    argsVars, initWrapVars, warnVars, ecoVars>>
outsideSpawn == <<idVars, orchVars, installVars, cfgVars, rngUnitVars, validateVars,
                  terrainVars, argsVars, initWrapVars, warnVars, ecoVars>>
outsideValidate == <<idVars, orchVars, installVars, cfgVars, rngUnitVars, spawnVars,
                     terrainVars, argsVars, initWrapVars, warnVars, ecoVars>>
outsideTerrain == <<idVars, orchVars, installVars, cfgVars, rngUnitVars, spawnVars,
                    validateVars, argsVars, initWrapVars, warnVars, ecoVars>>
outsideArgs == <<idVars, orchVars, installVars, cfgVars, rngUnitVars, spawnVars,
                 validateVars, terrainVars, initWrapVars, warnVars, ecoVars>>
outsideInitWrap == <<idVars, orchVars, installVars, cfgVars, rngUnitVars, spawnVars,
                     validateVars, terrainVars, argsVars, warnVars, ecoVars>>
outsideWarn == <<idVars, orchVars, installVars, cfgVars, rngUnitVars, spawnVars,
                 validateVars, terrainVars, argsVars, initWrapVars, ecoVars>>
outsideEconomy == <<idVars, orchVars, installVars, cfgVars, rngUnitVars, spawnVars,
                    validateVars, terrainVars, argsVars, initWrapVars, warnVars>>

(***************************************************************************)
(* The value each group of variables keeps in the specifications that do   *)
(* not exercise it.                                                        *)
(***************************************************************************)
IdsIdle ==
  /\ idPhase = "idle"
  /\ cmpEngine = "cmp"
  /\ rngPos = <<>>
  /\ capturedIds = <<>>
  /\ playerIdSequence = <<>>
  /\ idIndex = 0
  /\ origCalls = 0
  /\ wrappedCalls = 0
  /\ returnedIds = <<>>
  /\ generatedIds = <<>>

InstallIdle ==
  /\ hkStage = "idle"
  /\ hkKind = "none"
  /\ entry = <<>>
  /\ originals = <<>>
  /\ entryBefore = <<>>
  /\ hkInstalls = 0
  /\ hkCalls = 0

ConfigIdle ==
  /\ cfgPass = "idle"
  /\ configValues = <<>>
  /\ capturedConfig = <<>>
  /\ cfgCalls = 0
  /\ lastCall = <<>>

ValidateIdle ==
  /\ vStage = "idle"
  /\ snapshotTick0 = <<>>
  /\ snapshotTick30 = <<>>
  /\ refObserved = <<>>
  /\ sameObserved = <<>>
  /\ diffObserved = <<>>
  /\ appended = <<>>
  /\ vResult = <<>>

SpawnIdle ==
  /\ spPhase = "idle"
  /\ spawnAssignmentsByPlayerId = <<>>
  /\ capturedSpawn = <<>>
  /\ scheduled = <<>>
  /\ forwarded = <<>>
  /\ spCalls = <<>>

RngUnitIdle ==
  /\ shadow = <<>>
  /\ sinceReset = {}
  /\ rngHist = <<>>

TerrainIdle ==
  /\ tPass = "idle"
  /\ mapDataHash = 0
  /\ nationManifest = <<>>
  /\ capturedMap = <<>>
  /\ tLoaded = <<>>
  /\ tOutcome = <<>>
  /\ tTick = 0

ArgsIdle ==
  /\ argPc = "idle"
  /\ argv = <<>>
  /\ args = <<>>
  /\ parsed = <<>>
  /\ argError = <<"none", "">>
  /\ comparisonRun = <<>>
  /\ replayGitCommit = "null"
  /\ mainLog = <<>>

InitWrapIdle ==
  /\ iwPass = "idle"
  /\ iwStage = "before"
  /\ addExecution = "original"
  /\ iwSpawnMap = <<>>
  /\ iwCaptured = <<>>
  /\ iwInitCalls = 0
  /\ iwHanded = <<>>

WarnIdle ==
  /\ wPc = "idle"
  /\ wAtInstall = <<>>
  /\ wValidations = 0
  /\ wLog = <<>>
  /\ injectionWarnings = <<>>
  /\ resultWarnings = <<>>

EconomyIdle ==
  /\ ecoTick = 0
  /\ ecoPlayers = <<>>
  /\ clientIdByPlayerId = <<>>
  /\ totalsByClientId = <<>>
  /\ prevGoldByClientId = <<>>
  /\ prevGoldStatsByClientId = <<>>
  /\ goldSourcesByClientId = <<>>
  /\ prevGoldSourcesByClientId = <<>>

OrchIdle ==
  /\ pc = "idle"
  /\ pass = "ref"
  /\ cpuProfile = FALSE
  /\ numTicks = 0
  /\ rate = <<>>
  /\ profSession = FALSE
  /\ cpuProfilePath = FALSE
  /\ pending = "none"
  /\ rejection = "none"
  /\ installed = {}
  /\ installCalls = <<>>
  /\ cleanupCalls = <<>>
  /\ simThrew = <<>>
  /\ passDone = <<>>
  /\ registry = <<>>
  /\ streams = <<>>
  /\ tick = 0
  /\ rngSnapshotsByTick = <<>>
  /\ gameStateSnapshotTick0 = <<>>
  /\ gameStateSnapshotTick30 = <<>>
  /\ capturedState = <<>>
  /\ callLog = <<>>
  /\ justRestored = FALSE

(***************************************************************************)
(* Warnings are pairs <<kind, detail>>.                                    *)
(***************************************************************************)
WarnAdditionalIds(n) == <<"Generated additional IDs beyond captured state", n>>
WarnNoPseudoRandom == <<"PseudoRandom not available - cannot inject player IDs", 0>>

\* how often a warning is in the list
Occurrences(ws, w) == Cardinality({i \in 1..Len(ws) : ws[i] = w})

\* the warnings a call appended to the list
AppendedBy(before, after) == SubSeq(after, Len(before) + 1, Len(after))

RECURSIVE CountKind(_, _)
CountKind(ws, kind) ==
  IF ws = <<>> THEN 0
  ELSE (IF Head(ws)[1] = kind THEN 1 ELSE 0) + CountKind(Tail(ws), kind)

(***************************************************************************)
(* The engine's own PseudoRandom.nextID: one draw of the stream; the       *)
(* identifier is a function of the engine version, the stream and the      *)
(* stream's position.                                                      *)
(***************************************************************************)
IdStreams == 1..NumIdStreams
Engines == {"ref", "cmp"}

OriginalNextID(engine, s, pos) ==
  [id |-> <<engine, s, pos>>, pos |-> pos + 1]

(***************************************************************************)
(* stateCapture.ts 103-107: the capture pass's nextID.                     *)
(***************************************************************************)
CaptureNextID_ReturnsFirstCaptured(engine, s, pos, ids) ==
  \* records first and then hands out the first recorded identifier
  LET g == OriginalNextID(engine, s, pos)
  IN  [ret |-> Append(ids, g.id)[1], pos |-> g.pos, capturedIds |-> Append(ids, g.id),
       calls |-> 1, generated |-> <<g.id>>]

CaptureNextID(engine, s, pos, ids) ==
  LET g == OriginalNextID(engine, s, pos)
  IN  [ret |-> g.id, pos |-> g.pos, capturedIds |-> Append(ids, g.id),
       calls |-> 1, generated |-> <<g.id>>]

(***************************************************************************)
(* compareCommits.ts 589-609: the injection pass's nextID.                 *)
(***************************************************************************)
InjectNextID_SkipOriginal(engine, s, pos, idx, captured, ws) ==
  \* returns the captured id without consuming the stream
  IF idx < Len(captured)
  THEN [ret |-> captured[idx + 1], pos |-> pos, idIndex |-> idx + 1,
        warnings |-> ws, calls |-> 0, generated |-> <<>>]
  ELSE LET g == OriginalNextID(engine, s, pos)
       IN  [ret |-> g.id, pos |-> g.pos, idIndex |-> idx + 1,
            warnings |-> IF idx - Len(captured) + 1 = 1
                         THEN Append(ws, WarnAdditionalIds(Len(captured)))
                         ELSE ws,
            calls |-> 1, generated |-> <<g.id>>]

InjectNextID_OffByOne(engine, s, pos, idx, captured, ws) ==
  \* compares with <= and so reads one entry past the captured ones
  LET g == OriginalNextID(engine, s, pos)
  IN  IF idx + 1 < Len(captured)
      THEN [ret |-> captured[idx + 1], pos |-> g.pos, idIndex |-> idx + 1,
            warnings |-> ws, calls |-> 1, generated |-> <<g.id>>]
      ELSE [ret |-> g.id, pos |-> g.pos, idIndex |-> idx + 1,
            warnings |-> IF idx - Len(captured) + 1 = 1
                         THEN Append(ws, WarnAdditionalIds(Len(captured)))
                         ELSE ws,
            calls |-> 1, generated |-> <<g.id>>]

InjectNextID_WarnEach(engine, s, pos, idx, captured, ws) ==
  \* warns on every extra identifier
  LET g == OriginalNextID(engine, s, pos)
  IN  IF idx < Len(captured)
      THEN [ret |-> captured[idx + 1], pos |-> g.pos, idIndex |-> idx + 1,
            warnings |-> ws, calls |-> 1, generated |-> <<g.id>>]
      ELSE [ret |-> g.id, pos |-> g.pos, idIndex |-> idx + 1,
            warnings |-> IF idx - Len(captured) + 1 >= 1
                         THEN Append(ws, WarnAdditionalIds(Len(captured)))
                         ELSE ws,
            calls |-> 1, generated |-> <<g.id>>]

InjectNextID(engine, s, pos, idx, captured, ws) ==
  LET g == OriginalNextID(engine, s, pos)          \* 592: always call the original
  IN  IF idx < Len(captured)                       \* 595
      THEN [ret |-> captured[idx + 1], pos |-> g.pos, idIndex |-> idx + 1,
            warnings |-> ws, calls |-> 1, generated |-> <<g.id>>]
      ELSE [ret |-> g.id, pos |-> g.pos, idIndex |-> idx + 1,   \* 607-608
            warnings |-> IF idx - Len(captured) + 1 = 1         \* 600-601
                         THEN Append(ws, WarnAdditionalIds(Len(captured)))
                         ELSE ws,
            calls |-> 1, generated |-> <<g.id>>]

(***************************************************************************)
(* The process-wide registry and the instrumented PseudoRandom             *)
(* (openfrontCheckout.ts 36-95, the text patched into the engine).         *)
(* registry.bySeed is a Map: a sequence of [seed, list] in insertion order;*)
(* a list holds stream handles (positions in streams).                     *)
(***************************************************************************)
Passes == {"ref", "cmp"}
\* the seeds the engines construct streams with
Seeds == {1, 2}
\* draws a live stream makes in one tick
Rates == {0, 1}

NoRegistry == [defined |-> FALSE, bySeed |-> <<>>]

\* bySeed.get(seed): position of the seed's entry, 0 when the Map has none
SeedEntry(bySeed, seed) ==
  IF \E i \in 1..Len(bySeed) : bySeed[i].seed = seed
  THEN CHOOSE i \in 1..Len(bySeed) : bySeed[i].seed = seed
  ELSE 0

ListOf(bySeed, seed) ==
  IF SeedEntry(bySeed, seed) = 0 THEN <<>> ELSE bySeed[SeedEntry(bySeed, seed)].list

\* __replayAnalyzerRegistry(): creates the registry only when there is none
ReplayAnalyzerRegistry(reg) ==
  IF reg.defined THEN reg ELSE [defined |-> TRUE, bySeed |-> <<>>]

\* __replayAnalyzerResetPseudoRandomRegistry(): a new, empty registry
ResetPseudoRandomRegistry_KeepsLists(reg) == reg

ResetPseudoRandomRegistry(reg) == [defined |-> TRUE, bySeed |-> <<>>]

\* the seed of seedrandom("")
EmptySeed == 0

\* seedrandom(String(seed), { state: true }): the state of a fresh generator;
\* a state is the generator state or null
InitialState(seed) == [null |-> FALSE, seed |-> seed, pos |-> 0]
NullState == [null |-> TRUE, seed |-> EmptySeed, pos |-> 0]

\* __replayAnalyzerGetState: rng.state() when the generator was created with
\* the state option, else null
GetState(stream) == IF stream.hasState THEN stream.state ELSE NullState

\* reseeds from the empty string whatever the state
SetState_Reseeds(stream, state) ==
  [stream EXCEPT !.state = InitialState(EmptySeed), !.hasState = FALSE]

\* __replayAnalyzerSetState: this.rng = seedrandom("", { state }); a falsy
\* state gives a generator seeded from "" without the state function
SetState(stream, state) ==
  IF state.null
  THEN [stream EXCEPT !.state = InitialState(EmptySeed), !.hasState = FALSE]
  ELSE [stream EXCEPT !.state = state, !.hasState = TRUE]

\* numbers the streams across all seeds
ConstructPseudoRandom_GlobalIndex(reg, strs, engine, seed) ==
  LET r == ReplayAnalyzerRegistry(reg)
      list == ListOf(r.bySeed, seed)
      index == Len(strs)
      handle == Len(strs) + 1
      i == SeedEntry(r.bySeed, seed)
      newList == Append(list, handle)
  IN  [registry |->
         [defined |-> TRUE,
          bySeed |-> IF i = 0
                     THEN Append(r.bySeed, [seed |-> seed, list |-> newList])
                     ELSE [r.bySeed EXCEPT ![i].list = newList]],
       streams |->
         Append(strs, [engine |-> engine, seed |-> seed, index |-> index,
                       state |-> InitialState(seed), hasState |-> TRUE])]

\* the constructor's registration
ConstructPseudoRandom(reg, strs, engine, seed) ==
  LET r == ReplayAnalyzerRegistry(reg)
      list == ListOf(r.bySeed, seed)
      index == Len(list)
      handle == Len(strs) + 1
      i == SeedEntry(r.bySeed, seed)
      newList == Append(list, handle)
  IN  [registry |->
         [defined |-> TRUE,
          bySeed |-> IF i = 0
                     THEN Append(r.bySeed, [seed |-> seed, list |-> newList])
                     ELSE [r.bySeed EXCEPT ![i].list = newList]],
       streams |->
         Append(strs, [engine |-> engine, seed |-> seed, index |-> index,
                       state |-> InitialState(seed), hasState |-> TRUE])]

\* n draws of a stream
Draw(stream, n) == [stream EXCEPT !.state.pos = @ + n]

\* the next k values a stream draws: a function of its generator state
DrawValues(stream, k) ==
  [i \in 1..k |-> <<stream.state.seed, stream.state.pos + i - 1>>]

(***************************************************************************)
(* stateCapture.ts 70-92: captureRngSnapshot.                              *)
(***************************************************************************)
SnapList(seed, list, strs) ==
  [k \in 1..Len(list) |->
     [seed |-> seed, index |-> k - 1, state |-> GetState(strs[list[k]])]]

RECURSIVE SnapAll(_, _)
SnapAll(bySeed, strs) ==
  IF bySeed = <<>> THEN <<>>
  ELSE SnapList(Head(bySeed).seed, Head(bySeed).list, strs)
         \o SnapAll(Tail(bySeed), strs)

CaptureRngSnapshot(t, reg, strs, snaps) ==
  IF ~reg.defined THEN snaps                      \* 76: if (!bySeed) return
  ELSE (t :> SnapAll(reg.bySeed, strs)) @@ snaps  \* 88

(***************************************************************************)
(* compareCommits.ts 663-684: restoreRngSnapshot.                          *)
(***************************************************************************)
RECURSIVE ApplySnaps(_, _, _)
ApplySnaps(snaps, bySeed, strs) ==
  IF snaps = <<>> THEN strs
  ELSE LET s == Head(snaps)
           list == ListOf(bySeed, s.seed)
           next == IF s.index + 1 <= Len(list)
                   THEN [strs EXCEPT ![list[s.index + 1]] = SetState(@, s.state)]
                   ELSE strs
       IN  ApplySnaps(Tail(snaps), bySeed, next)

\* sets the first captured state on every stream
RestoreRngSnapshot_AllStreams(t, captured, reg, strs) ==
  IF t \notin DOMAIN captured.rngSnapshotsByTick THEN strs
  ELSE IF Len(captured.rngSnapshotsByTick[t]) = 0 THEN strs
  ELSE IF ~reg.defined THEN strs
  ELSE [i \in 1..Len(strs) |-> SetState(strs[i], captured.rngSnapshotsByTick[t][1].state)]

RestoreRngSnapshot(t, captured, reg, strs) ==
  IF t \notin DOMAIN captured.rngSnapshotsByTick THEN strs
  ELSE IF Len(captured.rngSnapshotsByTick[t]) = 0 THEN strs
  ELSE IF ~reg.defined THEN strs
  ELSE ApplySnaps(captured.rngSnapshotsByTick[t], reg.bySeed, strs)

(***************************************************************************)
(* Game-state snapshots, as far as compareCommits needs them: present or   *)
(* null, and the tick they were taken at.                                  *)
(***************************************************************************)
NullSnapshot == [present |-> FALSE, tick |-> 0]
SnapshotAt(t) == [present |-> TRUE, tick |-> t]

WarnNoTick0 == <<"No tick 0 snapshot captured from reference run", 0>>
WarnNoTick30 == <<"No tick 30 snapshot captured from reference run", 0>>
WarnTickMismatch(t) == <<"snapshot tick mismatch", t>>
WarnObservables(t) == <<"game state differs from reference", t>>

\* stateCapture.ts 247-268: captureGameStateSnapshotTick0
CaptureGameStateSnapshotTick0(t, gameThrows, reg, strs, snap0, snaps) ==
  IF gameThrows
  THEN [snap0 |-> snap0, snaps |-> snaps, log |-> <<>>]
  ELSE [snap0 |-> SnapshotAt(t),
        snaps |-> CaptureRngSnapshot(t, reg, strs, snaps),
        log |-> <<<<"captureRngSnapshot", t>>>>]

\* assigns the snapshot before it reads the game
CaptureGameStateSnapshotTick30_KeepsPartialSnapshot(t, gameThrows, reg, strs, snap30, snaps) ==
  IF gameThrows
  THEN [snap30 |-> SnapshotAt(t), snaps |-> snaps, log |-> <<>>]
  ELSE [snap30 |-> SnapshotAt(t),
        snaps |-> CaptureRngSnapshot(t, reg, strs, snaps),
        log |-> <<<<"captureRngSnapshot", t>>>>]

\* stateCapture.ts 269-314: captureGameStateSnapshotTick30
CaptureGameStateSnapshotTick30(t, gameThrows, reg, strs, snap30, snaps) ==
  IF gameThrows
  THEN [snap30 |-> snap30, snaps |-> snaps, log |-> <<>>]
  ELSE [snap30 |-> SnapshotAt(t),
        snaps |-> CaptureRngSnapshot(t, reg, strs, snaps),
        log |-> <<<<"captureRngSnapshot", t>>>>]

\* compareCommits.ts 800-844: validateGameStateSnapshotTick0; differs is what
\* the comparison of the observables finds
ValidateGameStateSnapshotTick0(t, differs, captured, ws) ==
  IF ~captured.gameStateSnapshotTick0.present THEN Append(ws, WarnNoTick0)
  ELSE LET w1 == IF captured.gameStateSnapshotTick0.tick # t
                 THEN Append(ws, WarnTickMismatch(t)) ELSE ws
       IN  IF differs THEN Append(w1, WarnObservables(t)) ELSE w1

\* compareCommits.ts 845-907: validateGameStateSnapshotTick30
ValidateGameStateSnapshotTick30(t, differs, captured, ws) ==
  IF ~captured.gameStateSnapshotTick30.present THEN Append(ws, WarnNoTick30)
  ELSE LET w1 == IF captured.gameStateSnapshotTick30.tick # t
                 THEN Append(ws, WarnTickMismatch(t)) ELSE ws
       IN  IF differs THEN Append(w1, WarnObservables(t)) ELSE w1

(***************************************************************************)
(* The callbacks the two passes hand to simulateReplay.                    *)
(***************************************************************************)
\* compareCommits.ts 106-111
OnGameInitializedCapture(t, gameThrows, reg, strs, snap0, snaps) ==
  LET c == CaptureGameStateSnapshotTick0(t, gameThrows, reg, strs, snap0, snaps)
  IN  [snap0 |-> c.snap0, snaps |-> c.snaps,
       log |-> <<<<"captureGameStateSnapshotTick0", t>>>> \o c.log]

\* records a stream snapshot after every tick
OnAfterTickCapture_Unguarded(t, gameThrows, reg, strs, snap30, snaps) ==
  LET s1 == CaptureRngSnapshot(t, reg, strs, snaps)
      l1 == <<<<"captureRngSnapshot", t>>>>
  IN  IF t = SpawnPhaseTicks
      THEN LET c == CaptureGameStateSnapshotTick30(t, gameThrows, reg, strs, snap30, s1)
           IN  [snap30 |-> c.snap30, snaps |-> c.snaps,
                log |-> l1 \o <<<<"captureGameStateSnapshotTick30", t>>>> \o c.log]
      ELSE [snap30 |-> snap30, snaps |-> s1, log |-> l1]

\* compareCommits.ts 112-126
OnAfterTickCapture(t, gameThrows, reg, strs, snap30, snaps) ==
  LET s1 == IF t <= SpawnPhaseTicks THEN CaptureRngSnapshot(t, reg, strs, snaps)
            ELSE snaps
      l1 == IF t <= SpawnPhaseTicks
            THEN <<<<"captureRngSnapshot", t>>>> ELSE <<>>
  IN  IF t = SpawnPhaseTicks
      THEN LET c == CaptureGameStateSnapshotTick30(t, gameThrows, reg, strs, snap30, s1)
           IN  [snap30 |-> c.snap30, snaps |-> c.snaps,
                log |-> l1 \o <<<<"captureGameStateSnapshotTick30", t>>>> \o c.log]
      ELSE [snap30 |-> snap30, snaps |-> s1, log |-> l1]

\* restore first, validate second
OnGameInitializedInject_RestoreFirst(t, differs, captured, reg, strs, ws) ==
  [streams |-> RestoreRngSnapshot(t, captured, reg, strs),
   warnings |-> ValidateGameStateSnapshotTick0(t, differs, captured, ws),
   log |-> << <<"restoreRngSnapshot", t>>, <<"validateGameStateSnapshotTick0", t>> >>]

\* compareCommits.ts 279-287
OnGameInitializedInject(t, differs, captured, reg, strs, ws) ==
  [warnings |-> ValidateGameStateSnapshotTick0(t, differs, captured, ws),   \* 283
   streams |-> RestoreRngSnapshot(t, captured, reg, strs),                  \* 286
   log |-> << <<"validateGameStateSnapshotTick0", t>>, <<"restoreRngSnapshot", t>> >>]

\* restores only strictly before the last tick of the spawn phase
OnAfterTickInject_StrictBound(t, differs, captured, reg, strs, ws) ==
  [streams |-> IF t < SpawnPhaseTicks
               THEN RestoreRngSnapshot(t, captured, reg, strs) ELSE strs,
   warnings |-> IF t = SpawnPhaseTicks
                THEN ValidateGameStateSnapshotTick30(t, differs, captured, ws)
                ELSE ws,
   log |-> (IF t < SpawnPhaseTicks THEN <<<<"restoreRngSnapshot", t>>>> ELSE <<>>)
           \o (IF t = SpawnPhaseTicks
               THEN <<<<"validateGameStateSnapshotTick30", t>>>> ELSE <<>>),
   restored |-> t < SpawnPhaseTicks]

\* compareCommits.ts 288-301
OnAfterTickInject(t, differs, captured, reg, strs, ws) ==
  [streams |-> IF t <= SpawnPhaseTicks
               THEN RestoreRngSnapshot(t, captured, reg, strs) ELSE strs,
   warnings |-> IF t = SpawnPhaseTicks
                THEN ValidateGameStateSnapshotTick30(t, differs, captured, ws)
                ELSE ws,
   log |-> (IF t <= SpawnPhaseTicks THEN <<<<"restoreRngSnapshot", t>>>> ELSE <<>>)
           \o (IF t = SpawnPhaseTicks
               THEN <<<<"validateGameStateSnapshotTick30", t>>>> ELSE <<>>),
   restored |-> t <= SpawnPhaseTicks]

\* stateCapture.ts 237-246: getCapturedState
GetCapturedState(snaps, snap0, snap30) ==
  [rngSnapshotsByTick |-> snaps,
   gameStateSnapshotTick0 |-> snap0,
   gameStateSnapshotTick30 |-> snap30]

NoError == <<"none", "none">>
HookOf(p) == IF p = "ref" THEN "capture" ELSE "injection"

(***************************************************************************)
(* SpecIds: a reference pass that generates identifiers, then a comparison *)
(* pass that generates identifiers under injection.                        *)
(***************************************************************************)
InitIds ==
  /\ idPhase = "capture"
  /\ cmpEngine \in Engines
  /\ rngPos = [s \in IdStreams |-> 0]
  /\ capturedIds = <<>>
  /\ playerIdSequence = <<>>
  /\ idIndex = 0
  /\ warnings = <<>>
  /\ origCalls = 0
  /\ wrappedCalls = 0
  /\ returnedIds = <<>>
  /\ generatedIds = <<>>
  /\ OrchIdle
  /\ InstallIdle
  /\ ConfigIdle
  /\ RngUnitIdle
  /\ SpawnIdle
  /\ ValidateIdle
  /\ EconomyIdle
  /\ WarnIdle
  /\ InitWrapIdle
  /\ ArgsIdle
  /\ TerrainIdle

\* a stream of the reference engine mints an identifier
RefCallsNextID(s) ==
  /\ idPhase = "capture"
  /\ Len(capturedIds) < MaxRefIds
  /\ LET r == CaptureNextID("ref", s, rngPos[s], capturedIds)
     IN  /\ rngPos' = [rngPos EXCEPT ![s] = r.pos]
         /\ capturedIds' = r.capturedIds
         /\ origCalls' = origCalls + r.calls
         /\ wrappedCalls' = wrappedCalls + 1
         /\ returnedIds' = Append(returnedIds, r.ret)
         /\ generatedIds' = generatedIds \o r.generated
  /\ UNCHANGED <<idPhase, cmpEngine, playerIdSequence, idIndex, warnings>>
  /\ UNCHANGED outsideIds

\* end of the reference pass: getCapturedState (stateCapture.ts 237-246), then
\* installStateInjection on a freshly loaded engine (compareCommits.ts 574-575)
StartInjection ==
  /\ idPhase = "capture"
  /\ idPhase' = "inject"
  /\ playerIdSequence' = capturedIds
  /\ rngPos' = [s \in IdStreams |-> 0]
  /\ idIndex' = 0
  /\ warnings' = <<>>
  /\ origCalls' = 0
  /\ wrappedCalls' = 0
  /\ returnedIds' = <<>>
  /\ generatedIds' = <<>>
  /\ UNCHANGED <<cmpEngine, capturedIds>>
  /\ UNCHANGED outsideIds

\* a stream of the comparison engine mints an identifier
CmpCallsNextID(s) ==
  /\ idPhase = "inject"
  /\ wrappedCalls < MaxCmpIds
  /\ LET r == InjectNextID(cmpEngine, s, rngPos[s], idIndex, playerIdSequence, warnings)
     IN  /\ rngPos' = [rngPos EXCEPT ![s] = r.pos]
         /\ idIndex' = r.idIndex
         /\ warnings' = r.warnings
         /\ origCalls' = origCalls + r.calls
         /\ wrappedCalls' = wrappedCalls + 1
         /\ returnedIds' = Append(returnedIds, r.ret)
         /\ generatedIds' = generatedIds \o r.generated
  /\ UNCHANGED <<idPhase, cmpEngine, capturedIds, playerIdSequence>>
  /\ UNCHANGED outsideIds

NextIds ==
  \/ \E s \in IdStreams : RefCallsNextID(s)
  \/ StartInjection
  \/ \E s \in IdStreams : CmpCallsNextID(s)

SpecIds == InitIds /\ [][NextIds]_vars

(***************************************************************************)
(* Spec: compareCommits (compareCommits.ts 392-556) with                   *)
(* runReplayWithCapture (47-215) and runReplayWithInjection (217-390).     *)
(***************************************************************************)
InitReplays(lengths) ==
  /\ pc = "prepare"
  /\ pass = "ref"
  /\ cpuProfile \in BOOLEAN
  /\ numTicks \in lengths
  /\ rate \in [Passes -> Rates]
  /\ profSession = FALSE
  /\ cpuProfilePath = FALSE
  /\ pending = NoError
  /\ rejection = NoError
  /\ installed = {}
  /\ installCalls = [p \in Passes |-> 0]
  /\ cleanupCalls = [p \in Passes |-> 0]
  /\ simThrew = [p \in Passes |-> FALSE]
  /\ passDone = [p \in Passes |-> FALSE]
  /\ registry = NoRegistry
  /\ streams = <<>>
  /\ tick = 0
  /\ rngSnapshotsByTick = <<>>
  /\ gameStateSnapshotTick0 = NullSnapshot
  /\ gameStateSnapshotTick30 = NullSnapshot
  /\ capturedState = GetCapturedState(<<>>, NullSnapshot, NullSnapshot)
  /\ callLog = [p \in Passes |-> <<>>]
  /\ justRestored = FALSE
  /\ warnings = <<>>
  /\ IdsIdle
  /\ InstallIdle
  /\ ConfigIdle
  /\ RngUnitIdle
  /\ SpawnIdle
  /\ ValidateIdle
  /\ EconomyIdle
  /\ WarnIdle
  /\ InitWrapIdle
  /\ ArgsIdle
  /\ TerrainIdle

\* replays of a few ticks
Init == InitReplays(0..MaxTicks)

\* replays that end with the spawn phase or run past it
LongReplays == SpawnPhaseTicks..(SpawnPhaseTicks + TicksPastSpawn)
InitSpawnPhase == InitReplays(LongReplays)

\* 417-431, 477-491: checkoutOpenFrontCommit, ensureGameDepsInstalled,
\* loadOpenFrontRuntime
PrepareEngine ==
  /\ pc = "prepare"
  /\ pc' = "install"
  /\ UNCHANGED <<pass, cpuProfile, numTicks, rate, profSession, cpuProfilePath,
                 pending, rejection, installed, installCalls, cleanupCalls,
                 simThrew, passDone, registry, streams, tick, rngSnapshotsByTick,
                 gameStateSnapshotTick0, gameStateSnapshotTick30, capturedState,
                 callLog, justRestored, warnings>>
  /\ UNCHANGED outsideOrch

PrepareEngineFails ==
  /\ pc = "prepare"
  /\ pc' = "rejected"
  /\ rejection' = <<"prepare", pass>>
  /\ UNCHANGED <<pass, cpuProfile, numTicks, rate, profSession, cpuProfilePath,
                 pending, installed, installCalls, cleanupCalls,
                 simThrew, passDone, registry, streams, tick, rngSnapshotsByTick,
                 gameStateSnapshotTick0, gameStateSnapshotTick30, capturedState,
                 callLog, justRestored, warnings>>
  /\ UNCHANGED outsideOrch

\* 61-71: installStateCapture and the locals of runReplayWithCapture
InstallStateCapture ==
  /\ pc = "install"
  /\ pass = "ref"
  /\ installed' = installed \cup {"capture"}
  /\ installCalls' = [installCalls EXCEPT !["ref"] = @ + 1]
  /\ rngSnapshotsByTick' = <<>>
  /\ gameStateSnapshotTick0' = NullSnapshot
  /\ gameStateSnapshotTick30' = NullSnapshot
  /\ profSession' = FALSE
  /\ cpuProfilePath' = FALSE
  /\ pc' = IF cpuProfile THEN "profStart" ELSE "loadReplay"
  /\ UNCHANGED <<pass, cpuProfile, numTicks, rate, pending, rejection,
                 cleanupCalls, simThrew, passDone, registry, streams, tick,
                 capturedState, callLog, justRestored, warnings>>
  /\ UNCHANGED outsideOrch

\* 234-244: installStateInjection and the locals of runReplayWithInjection
InstallStateInjection ==
  /\ pc = "install"
  /\ pass = "cmp"
  /\ installed' = installed \cup {"injection"}
  /\ installCalls' = [installCalls EXCEPT !["cmp"] = @ + 1]
  /\ warnings' = <<>>
  /\ profSession' = FALSE
  /\ cpuProfilePath' = FALSE
  /\ pc' = IF cpuProfile THEN "profStart" ELSE "loadReplay"
  /\ UNCHANGED <<pass, cpuProfile, numTicks, rate, pending, rejection,
                 cleanupCalls, simThrew, passDone, registry, streams, tick,
                 rngSnapshotsByTick, gameStateSnapshotTick0,
                 gameStateSnapshotTick30, capturedState, callLog, justRestored>>
  /\ UNCHANGED outsideOrch

\* 74-80, 247-253: the profiler starts
StartProfile ==
  /\ pc = "profStart"
  /\ profSession' = TRUE
  /\ cpuProfilePath' = TRUE
  /\ pc' = "loadReplay"
  /\ UNCHANGED <<pass, cpuProfile, numTicks, rate, pending, rejection, installed,
                 installCalls, cleanupCalls, simThrew, passDone, registry, streams,
                 tick, rngSnapshotsByTick, gameStateSnapshotTick0,
                 gameStateSnapshotTick30, capturedState, callLog, justRestored,
                 warnings>>
  /\ UNCHANGED outsideOrch

\* 75-78: connect / Profiler.enable / Profiler.start throws; cpuProfilePath (79)
\* is not assigned
StartProfileFails ==
  /\ pc = "profStart"
  /\ profSession' = TRUE
  /\ pending' = <<"profStart", pass>>
  /\ pc' = "finally"
  /\ UNCHANGED <<pass, cpuProfile, numTicks, rate, cpuProfilePath, rejection,
                 installed, installCalls, cleanupCalls, simThrew, passDone,
                 registry, streams, tick, rngSnapshotsByTick,
                 gameStateSnapshotTick0, gameStateSnapshotTick30, capturedState,
                 callLog, justRestored, warnings>>
  /\ UNCHANGED outsideOrch

\* 81-85, 254-258
LoadReplay ==
  /\ pc = "loadReplay"
  /\ pc' = "simCreate"
  /\ UNCHANGED <<pass, cpuProfile, numTicks, rate, profSession, cpuProfilePath,
                 pending, rejection, installed, installCalls, cleanupCalls,
                 simThrew, passDone, registry, streams, tick, rngSnapshotsByTick,
                 gameStateSnapshotTick0, gameStateSnapshotTick30, capturedState,
                 callLog, justRestored, warnings>>
  /\ UNCHANGED outsideOrch

LoadReplayFails ==
  /\ pc = "loadReplay"
  /\ pending' = <<"loadReplay", pass>>
  /\ pc' = "finally"
  /\ UNCHANGED <<pass, cpuProfile, numTicks, rate, profSession, cpuProfilePath,
                 rejection, installed, installCalls, cleanupCalls,
                 simThrew, passDone, registry, streams, tick, rngSnapshotsByTick,
                 gameStateSnapshotTick0, gameStateSnapshotTick30, capturedState,
                 callLog, justRestored, warnings>>
  /\ UNCHANGED outsideOrch

StreamsOf(strs, p) == {i \in 1..Len(strs) : strs[i].engine = p}

\* streams one pass constructs in a replay of n ticks: one fewer in the long
\* replays, which keeps their exploration small
StreamBudget(n) == IF n > MaxTicks THEN MaxStreams - 1 ELSE MaxStreams

\* the running engine constructs a PseudoRandom while the game is created
ConstructStream(seed) ==
  /\ pc = "simCreate"
  /\ Cardinality(StreamsOf(streams, pass)) < StreamBudget(numTicks)
  /\ LET c == ConstructPseudoRandom(registry, streams, pass, seed)
     IN  /\ registry' = c.registry
         /\ streams' = c.streams
  /\ justRestored' = FALSE
  /\ UNCHANGED <<pc, pass, cpuProfile, numTicks, rate, profSession, cpuProfilePath,
                 pending, rejection, installed, installCalls, cleanupCalls,
                 simThrew, passDone, tick, rngSnapshotsByTick,
                 gameStateSnapshotTick0, gameStateSnapshotTick30, capturedState,
                 callLog, warnings>>
  /\ UNCHANGED outsideOrch

\* simulateReplay: the game is initialised and onGameInitialized fires
GameInitializedRef(gameThrows) ==
  /\ pc = "simCreate"
  /\ pass = "ref"
  /\ LET r == OnGameInitializedCapture(0, gameThrows, registry, streams,
                                       gameStateSnapshotTick0, rngSnapshotsByTick)
     IN  /\ gameStateSnapshotTick0' = r.snap0
         /\ rngSnapshotsByTick' = r.snaps
         /\ callLog' = [callLog EXCEPT !["ref"] = @ \o r.log]
  /\ tick' = 0
  /\ pc' = "simTicking"
  /\ justRestored' = FALSE
  /\ UNCHANGED <<pass, cpuProfile, numTicks, rate, profSession, cpuProfilePath,
                 pending, rejection, installed, installCalls, cleanupCalls,
                 simThrew, passDone, registry, streams, gameStateSnapshotTick30,
                 capturedState, warnings>>
  /\ UNCHANGED outsideOrch

\* the restore at tick 0 removes the snapshot it used from the CapturedState
GameInitializedCmp_ConsumesSnapshot(differs) ==
  /\ pc = "simCreate"
  /\ pass = "cmp"
  /\ LET r == OnGameInitializedInject(0, differs, capturedState, registry, streams,
                                      warnings)
     IN  /\ streams' = r.streams
         /\ warnings' = r.warnings
         /\ callLog' = [callLog EXCEPT !["cmp"] = @ \o r.log]
  /\ capturedState' = [capturedState EXCEPT !.rngSnapshotsByTick = <<>>]
  /\ tick' = 0
  /\ pc' = "simTicking"
  /\ justRestored' = TRUE
  /\ UNCHANGED <<pass, cpuProfile, numTicks, rate, profSession, cpuProfilePath,
                 pending, rejection, installed, installCalls, cleanupCalls,
                 simThrew, passDone, registry, rngSnapshotsByTick,
                 gameStateSnapshotTick0, gameStateSnapshotTick30>>
  /\ UNCHANGED outsideOrch

GameInitializedCmp(differs) ==
  /\ pc = "simCreate"
  /\ pass = "cmp"
  /\ LET r == OnGameInitializedInject(0, differs, capturedState, registry, streams,
                                      warnings)
     IN  /\ streams' = r.streams
         /\ warnings' = r.warnings
         /\ callLog' = [callLog EXCEPT !["cmp"] = @ \o r.log]
  /\ tick' = 0
  /\ pc' = "simTicking"
  /\ justRestored' = TRUE
  /\ UNCHANGED <<pass, cpuProfile, numTicks, rate, profSession, cpuProfilePath,
                 pending, rejection, installed, installCalls, cleanupCalls,
                 simThrew, passDone, registry, rngSnapshotsByTick,
                 gameStateSnapshotTick0, gameStateSnapshotTick30, capturedState>>
  /\ UNCHANGED outsideOrch

\* the engine executes one tick: every live stream of the running engine
\* draws rate[pass] times
ExecuteTick(strs, p, n) ==
  [i \in 1..Len(strs) |-> IF strs[i].engine = p THEN Draw(strs[i], n) ELSE strs[i]]

\* simulateReplay: one tick, then onAfterTick
TickRef(gameThrows) ==
  /\ pc = "simTicking"
  /\ pass = "ref"
  /\ tick < numTicks
  /\ tick' = tick + 1
  /\ streams' = ExecuteTick(streams, "ref", rate["ref"])
  /\ LET r == OnAfterTickCapture(tick + 1, gameThrows, registry, streams',
                                 gameStateSnapshotTick30, rngSnapshotsByTick)
     IN  /\ gameStateSnapshotTick30' = r.snap30
         /\ rngSnapshotsByTick' = r.snaps
         /\ callLog' = [callLog EXCEPT !["ref"] = @ \o r.log]
  /\ justRestored' = FALSE
  /\ UNCHANGED <<pc, pass, cpuProfile, numTicks, rate, profSession, cpuProfilePath,
                 pending, rejection, installed, installCalls, cleanupCalls,
                 simThrew, passDone, registry, gameStateSnapshotTick0,
                 capturedState, warnings>>
  /\ UNCHANGED outsideOrch

TickCmp(differs) ==
  /\ pc = "simTicking"
  /\ pass = "cmp"
  /\ tick < numTicks
  /\ tick' = tick + 1
  /\ LET r == OnAfterTickInject(tick + 1, differs, capturedState, registry,
                                ExecuteTick(streams, "cmp", rate["cmp"]), warnings)
     IN  /\ streams' = r.streams
         /\ warnings' = r.warnings
         /\ callLog' = [callLog EXCEPT !["cmp"] = @ \o r.log]
         /\ justRestored' = r.restored
  /\ UNCHANGED <<pc, pass, cpuProfile, numTicks, rate, profSession, cpuProfilePath,
                 pending, rejection, installed, installCalls, cleanupCalls,
                 simThrew, passDone, registry, rngSnapshotsByTick,
                 gameStateSnapshotTick0, gameStateSnapshotTick30, capturedState>>
  /\ UNCHANGED outsideOrch

\* simulateReplay rejects
SimulationThrows ==
  /\ pc \in {"simCreate", "simTicking"}
  /\ simThrew' = [simThrew EXCEPT ![pass] = TRUE]
  /\ pending' = <<"simulateReplay", pass>>
  /\ pc' = "finally"
  /\ UNCHANGED <<pass, cpuProfile, numTicks, rate, profSession, cpuProfilePath,
                 rejection, installed, installCalls, cleanupCalls, passDone,
                 registry, streams, tick, rngSnapshotsByTick,
                 gameStateSnapshotTick0, gameStateSnapshotTick30, capturedState,
                 callLog, justRestored, warnings>>
  /\ UNCHANGED outsideOrch

\* 129-201, 304-376: simulateReplay resolved; the report is built and returned
SimulationCompletes ==
  /\ pc = "simTicking"
  /\ tick = numTicks
  /\ pc' = "finally"
  /\ UNCHANGED <<pass, cpuProfile, numTicks, rate, profSession, cpuProfilePath,
                 pending, rejection, installed, installCalls, cleanupCalls,
                 simThrew, passDone, registry, streams, tick, rngSnapshotsByTick,
                 gameStateSnapshotTick0, gameStateSnapshotTick30, capturedState,
                 callLog, justRestored, warnings>>
  /\ UNCHANGED outsideOrch

\* the finally block ends without restoring the entry points
FinallyCleanup_LeavesHooks ==
  /\ pc = "finally"
  /\ cleanupCalls' = [cleanupCalls EXCEPT ![pass] = @ + 1]
  /\ passDone' = [passDone EXCEPT ![pass] = TRUE]
  /\ pc' = "passExit"
  /\ UNCHANGED <<pass, cpuProfile, numTicks, rate, profSession, cpuProfilePath,
                 pending, rejection, installed, installCalls, simThrew, registry,
                 streams, tick, rngSnapshotsByTick, gameStateSnapshotTick0,
                 gameStateSnapshotTick30, capturedState, callLog, justRestored,
                 warnings>>
  /\ UNCHANGED outsideOrch

\* 203-214, 378-389: the finally block runs to its end: the profile, if one
\* was started, is stopped and written; cleanup() is called
FinallyCleanup ==
  /\ pc = "finally"
  /\ cleanupCalls' = [cleanupCalls EXCEPT ![pass] = @ + 1]
  /\ installed' = installed \ {HookOf(pass)}
  /\ passDone' = [passDone EXCEPT ![pass] = TRUE]
  /\ pc' = "passExit"
  /\ UNCHANGED <<pass, cpuProfile, numTicks, rate, profSession, cpuProfilePath,
                 pending, rejection, installCalls, simThrew, registry, streams,
                 tick, rngSnapshotsByTick, gameStateSnapshotTick0,
                 gameStateSnapshotTick30, capturedState, callLog, justRestored,
                 warnings>>
  /\ UNCHANGED outsideOrch

\* 205-212, 380-387: Profiler.stop or fs.writeFile throws; the inner finally
\* disconnects, the exception leaves the outer finally before line 213 / 388
FinallyProfileStopFails ==
  /\ pc = "finally"
  /\ profSession /\ cpuProfilePath
  /\ pending' = <<"profStop", pass>>
  /\ passDone' = [passDone EXCEPT ![pass] = TRUE]
  /\ pc' = "passExit"
  /\ UNCHANGED <<pass, cpuProfile, numTicks, rate, profSession, cpuProfilePath,
                 rejection, installed, installCalls, cleanupCalls, simThrew,
                 registry, streams, tick, rngSnapshotsByTick,
                 gameStateSnapshotTick0, gameStateSnapshotTick30, capturedState,
                 callLog, justRestored, warnings>>
  /\ UNCHANGED outsideOrch

\* the await of the pass in compareCommits (454, 493) rejects
PassRejects ==
  /\ pc = "passExit"
  /\ pending # NoError
  /\ rejection' = pending
  /\ pc' = "rejected"
  /\ UNCHANGED <<pass, cpuProfile, numTicks, rate, profSession, cpuProfilePath,
                 pending, installed, installCalls, cleanupCalls, simThrew,
                 passDone, registry, streams, tick, rngSnapshotsByTick,
                 gameStateSnapshotTick0, gameStateSnapshotTick30, capturedState,
                 callLog, justRestored, warnings>>
  /\ UNCHANGED outsideOrch

\* 454-474: runReplayWithCapture resolved with { report, capturedState }
\* (getCapturedState, 197-201); compareCommits goes on to the comparison pass
ReferencePassReturns ==
  /\ pc = "passExit"
  /\ pending = NoError
  /\ pass = "ref"
  /\ capturedState' = GetCapturedState(rngSnapshotsByTick, gameStateSnapshotTick0,
                                       gameStateSnapshotTick30)
  /\ pass' = "cmp"
  /\ pc' = "prepare"
  /\ UNCHANGED <<cpuProfile, numTicks, rate, profSession, cpuProfilePath,
                 pending, rejection, installed, installCalls, cleanupCalls,
                 simThrew, passDone, registry, streams, tick, rngSnapshotsByTick,
                 gameStateSnapshotTick0, gameStateSnapshotTick30,
                 callLog, justRestored, warnings>>
  /\ UNCHANGED outsideOrch

\* 493-555: runReplayWithInjection resolved; compareCommits returns the
\* ComparisonResult
ComparisonPassReturns ==
  /\ pc = "passExit"
  /\ pending = NoError
  /\ pass = "cmp"
  /\ pc' = "returned"
  /\ UNCHANGED <<pass, cpuProfile, numTicks, rate, profSession, cpuProfilePath,
                 pending, rejection, installed, installCalls, cleanupCalls,
                 simThrew, passDone, registry, streams, tick, rngSnapshotsByTick,
                 gameStateSnapshotTick0, gameStateSnapshotTick30, capturedState,
                 callLog, justRestored, warnings>>
  /\ UNCHANGED outsideOrch

Next ==
  \/ PrepareEngine
  \/ PrepareEngineFails
  \/ InstallStateCapture
  \/ InstallStateInjection
  \/ StartProfile
  \/ StartProfileFails
  \/ LoadReplay
  \/ LoadReplayFails
  \/ \E seed \in Seeds : ConstructStream(seed)
  \/ \E gameThrows \in BOOLEAN : GameInitializedRef(gameThrows)
  \/ \E differs \in BOOLEAN : GameInitializedCmp(differs)
  \/ \E gameThrows \in BOOLEAN : TickRef(gameThrows)
  \/ \E differs \in BOOLEAN : TickCmp(differs)
  \/ SimulationThrows
  \/ SimulationCompletes
  \/ FinallyCleanup
  \/ FinallyProfileStopFails
  \/ PassRejects
  \/ ReferencePassReturns
  \/ ComparisonPassReturns

Spec == Init /\ [][Next]_vars

\* compareCommits on replays that reach the end of the spawn phase
SpecSpawnPhase == InitSpawnPhase /\ [][Next]_vars

(***************************************************************************)
(* SpecInstall: installStateCapture (stateCapture.ts 94-236) and           *)
(* installStateInjection (compareCommits.ts 577-798) on a runtime that has *)
(* any subset of the four entry points, and their cleanup.                 *)
(***************************************************************************)
EntryPoints == {"nextID", "init", "loadTerrainMap", "getConfig"}

Undefined == [fn |-> "undefined", n |-> 0]
OriginalFn == [fn |-> "original", n |-> 0]
\* the closure installed by the n-th install
WrapperFn(kind, n) == [fn |-> kind, n |-> n]

\* wraps the entry point without testing that it exists
Wrap_Unguarded(st, name, wrapper) ==
  [st EXCEPT !.originals = Append(@, [prop |-> name, value |-> st.entry[name]]),
             !.entry[name] = wrapper]

\* originals.push({ obj, prop, value }); obj[prop] = wrapper -- only when the
\* entry point exists
Wrap(st, name, wrapper) ==
  IF st.entry[name] = Undefined THEN st
  ELSE [st EXCEPT !.originals = Append(@, [prop |-> name, value |-> st.entry[name]]),
                  !.entry[name] = wrapper]

\* stateCapture.ts 94-228
InstallStateCaptureHooks(ent, n) ==
  LET w == WrapperFn("captureWrapper", n)
      s0 == [entry |-> ent, originals |-> <<>>]
      s1 == Wrap(s0, "nextID", w)             \* 95-108
      s2 == Wrap(s1, "init", w)               \* 112-158
      s3 == Wrap(s2, "loadTerrainMap", w)     \* 161-195
  IN  Wrap(s3, "getConfig", w)                \* 198-228

\* compareCommits.ts 574-790
InstallStateInjectionHooks(ent, n) ==
  LET w == WrapperFn("injectionWrapper", n)
      s0 == [entry |-> ent, originals |-> <<>>]
      s1 == Wrap(s0, "nextID", w)             \* 581-609
      s2 == Wrap(s1, "init", w)               \* 616-661
      s3 == Wrap(s2, "loadTerrainMap", w)     \* 687-748
      s4 == Wrap(s3, "getConfig", w)          \* 751-790
  IN  [entry |-> s4.entry, originals |-> s4.originals,
       warnings |-> IF ent["nextID"] = Undefined      \* 610-612
                    THEN <<WarnNoPseudoRandom>> ELSE <<>>]

RECURSIVE CleanupHooks_SkipsPrototypes(_, _)
\* restores only the properties of the runtime object, not those of the
\* prototypes
CleanupHooks_SkipsPrototypes(origs, ent) ==
  IF origs = <<>> THEN ent
  ELSE CleanupHooks_SkipsPrototypes(
         Tail(origs),
         IF Head(origs).prop \in {"loadTerrainMap", "getConfig"}
         THEN [ent EXCEPT ![Head(origs).prop] = Head(origs).value]
         ELSE ent)

RECURSIVE CleanupHooks(_, _)
\* stateCapture.ts 231-236, compareCommits.ts 793-798
CleanupHooks(origs, ent) ==
  IF origs = <<>> THEN ent
  ELSE CleanupHooks(Tail(origs), [ent EXCEPT ![Head(origs).prop] = Head(origs).value])

InitInstall ==
  /\ hkStage = "loaded"
  /\ hkKind = "none"
  /\ \E present \in SUBSET EntryPoints :
       entry = [e \in EntryPoints |-> IF e \in present THEN OriginalFn ELSE Undefined]
  /\ originals = <<>>
  /\ entryBefore = entry
  /\ hkInstalls = 0
  /\ hkCalls = 0
  /\ warnings = <<>>
  /\ IdsIdle
  /\ OrchIdle
  /\ ConfigIdle
  /\ RngUnitIdle
  /\ SpawnIdle
  /\ ValidateIdle
  /\ EconomyIdle
  /\ WarnIdle
  /\ InitWrapIdle
  /\ ArgsIdle
  /\ TerrainIdle

InstallCaptureOnRuntime ==
  /\ hkStage \in {"loaded", "cleaned"}
  /\ hkInstalls < MaxInstalls
  /\ LET r == InstallStateCaptureHooks(entry, hkInstalls + 1)
     IN  /\ entry' = r.entry
         /\ originals' = r.originals
  /\ entryBefore' = entry
  /\ hkKind' = "capture"
  /\ hkStage' = "installed"
  /\ hkInstalls' = hkInstalls + 1
  /\ hkCalls' = 0
  /\ UNCHANGED warnings
  /\ UNCHANGED outsideInstall

InstallInjectionOnRuntime ==
  /\ hkStage \in {"loaded", "cleaned"}
  /\ hkInstalls < MaxInstalls
  /\ LET r == InstallStateInjectionHooks(entry, hkInstalls + 1)
     IN  /\ entry' = r.entry
         /\ originals' = r.originals
         /\ warnings' = r.warnings
  /\ entryBefore' = entry
  /\ hkKind' = "injection"
  /\ hkStage' = "installed"
  /\ hkInstalls' = hkInstalls + 1
  /\ hkCalls' = 0
  /\ UNCHANGED outsideInstall

\* the engine calls an entry point that holds a wrapper
EngineCallsWrapped(e) ==
  /\ hkStage = "installed"
  /\ entry[e].fn \in {"captureWrapper", "injectionWrapper"}
  /\ hkCalls < MaxHookCalls
  /\ hkCalls' = hkCalls + 1
  /\ UNCHANGED <<hkStage, hkKind, entry, originals, entryBefore, hkInstalls, warnings>>
  /\ UNCHANGED outsideInstall

CleanupOnRuntime ==
  /\ hkStage = "installed"
  /\ entry' = CleanupHooks(originals, entry)
  /\ hkStage' = "cleaned"
  /\ UNCHANGED <<hkKind, originals, entryBefore, hkInstalls, hkCalls, warnings>>
  /\ UNCHANGED outsideInstall

NextInstall ==
  \/ InstallCaptureOnRuntime
  \/ InstallInjectionOnRuntime
  \/ \E e \in EntryPoints : EngineCallsWrapped(e)
  \/ CleanupOnRuntime

SpecInstall == InitInstall /\ [][NextInstall]_vars

(***************************************************************************)
(* SpecConfig: the getConfig wrappers of the capture pass                  *)
(* (stateCapture.ts 206-227) and of the injection pass                     *)
(* (compareCommits.ts 759-789).                                            *)
(***************************************************************************)
ConfigKeys ==
  <<"gameMap", "gameMapSize", "difficulty", "disableNPCs", "bots", "infiniteGold",
    "infiniteTroops", "donateGold", "donateTroops", "instantBuild", "randomSpawn",
    "gameMode", "playerTeams">>

KeySet == {ConfigKeys[i] : i \in 1..Len(ConfigKeys)}

\* the values a configuration scalar takes in the model
AltValues == {"v2", "null", "NaN", "undefined", "bigint"}
VariedKeys == {"bots", "playerTeams"}
BaseConfig == [k \in KeySet |-> "v1"]
ConfigValuesOfEngine ==
  {BaseConfig} \cup {[BaseConfig EXCEPT ![k] = v] : k \in VariedKeys, v \in AltValues}

\* the Config object the engine's getConfig resolves to: what gameConfig()
\* returns, or that gameConfig() throws
EngineConfigs ==
  {[values |-> c, accessorThrows |-> t] : c \in ConfigValuesOfEngine, t \in BOOLEAN}

\* JSON.stringify: throws on a BigInt, gives undefined for undefined and
\* "null" for null and for NaN
StringifyThrows(v) == v = "bigint"
Stringify(v) ==
  CASE v = "undefined" -> "undefined"
    [] v \in {"null", "NaN"} -> "null"
    [] OTHER -> v

WarnConfigDifference(k) == <<"Config difference", k>>

\* stateCapture.ts 206-227
CaptureGetConfig(engineThrows, config, values) ==
  IF engineThrows                       \* 207: the engine's getConfig rejects
  THEN [threw |-> "engine", ret |-> "none", configValues |-> values]
  ELSE IF config.accessorThrows         \* 211-223, outside any try
  THEN [threw |-> "bookkeeping", ret |-> "none", configValues |-> values]
  ELSE [threw |-> "none", ret |-> config,
        configValues |-> [k \in KeySet |-> config.values[k]]]

\* Object.entries(capturedState.configValues)
CapturedKeys(captured) == IF DOMAIN captured = {} THEN <<>> ELSE ConfigKeys

RECURSIVE CompareConfig(_, _, _, _)
\* compareCommits.ts 779-786, from the i-th captured key on
CompareConfig(i, captured, current, ws) ==
  IF i > Len(CapturedKeys(captured)) THEN [threw |-> "none", warnings |-> ws]
  ELSE LET k == CapturedKeys(captured)[i]
       IN  IF StringifyThrows(captured[k]) \/ StringifyThrows(current[k])
           THEN [threw |-> "bookkeeping", warnings |-> ws]
           ELSE CompareConfig(i + 1, captured, current,
                              IF Stringify(captured[k]) # Stringify(current[k])
                              THEN Append(ws, WarnConfigDifference(k))
                              ELSE ws)

\* compares nothing
InjectGetConfig_NoWarnings(engineThrows, config, captured, ws) ==
  IF engineThrows
  THEN [threw |-> "engine", ret |-> "none", warnings |-> ws]
  ELSE IF config.accessorThrows
  THEN [threw |-> "bookkeeping", ret |-> "none", warnings |-> ws]
  ELSE [threw |-> "none", ret |-> config, warnings |-> ws]

\* compareCommits.ts 759-789
InjectGetConfig(engineThrows, config, captured, ws) ==
  IF engineThrows                       \* 760: the engine's getConfig rejects
  THEN [threw |-> "engine", ret |-> "none", warnings |-> ws]
  ELSE IF config.accessorThrows         \* 763-777, outside any try
  THEN [threw |-> "bookkeeping", ret |-> "none", warnings |-> ws]
  ELSE LET c == CompareConfig(1, captured, config.values, ws)
       IN  [threw |-> c.threw,
            ret |-> IF c.threw = "none" THEN config ELSE "none",
            warnings |-> c.warnings]

NoCall == [threw |-> "none", engineThrew |-> FALSE,
           config |-> [values |-> BaseConfig, accessorThrows |-> FALSE],
           ret |-> "none", appended |-> <<>>]

InitConfig ==
  /\ cfgPass = "ref"
  /\ configValues = <<>>
  /\ capturedConfig = <<>>
  /\ cfgCalls = 0
  /\ lastCall = NoCall
  /\ warnings = <<>>
  /\ IdsIdle
  /\ OrchIdle
  /\ InstallIdle
  /\ RngUnitIdle
  /\ SpawnIdle
  /\ ValidateIdle
  /\ EconomyIdle
  /\ WarnIdle
  /\ InitWrapIdle
  /\ ArgsIdle
  /\ TerrainIdle

\* the reference engine calls the wrapped getConfig
RefCallsGetConfig(engineThrows, config) ==
  /\ cfgPass = "ref"
  /\ cfgCalls < MaxCfgCalls
  /\ LET r == CaptureGetConfig(engineThrows, config, configValues)
     IN  /\ configValues' = r.configValues
         /\ lastCall' = [threw |-> r.threw, engineThrew |-> engineThrows,
                         config |-> config, ret |-> r.ret, appended |-> <<>>]
  /\ cfgCalls' = cfgCalls + 1
  /\ UNCHANGED <<cfgPass, capturedConfig, warnings>>
  /\ UNCHANGED outsideConfig

\* getCapturedState (stateCapture.ts 243), then installStateInjection
\* (compareCommits.ts 574)
ConfigStartInjection ==
  /\ cfgPass = "ref"
  /\ cfgPass' = "cmp"
  /\ capturedConfig' = configValues
  /\ cfgCalls' = 0
  /\ lastCall' = NoCall
  /\ warnings' = <<>>
  /\ UNCHANGED configValues
  /\ UNCHANGED outsideConfig

\* the comparison engine calls the wrapped getConfig
CmpCallsGetConfig(engineThrows, config) ==
  /\ cfgPass = "cmp"
  /\ cfgCalls < MaxCfgCalls
  /\ LET r == InjectGetConfig(engineThrows, config, capturedConfig, warnings)
     IN  /\ warnings' = r.warnings
         /\ lastCall' = [threw |-> r.threw, engineThrew |-> engineThrows,
                         config |-> config, ret |-> r.ret,
                         appended |-> AppendedBy(warnings, r.warnings)]
  /\ cfgCalls' = cfgCalls + 1
  /\ UNCHANGED <<cfgPass, configValues, capturedConfig>>
  /\ UNCHANGED outsideConfig

NextConfig ==
  \/ \E t \in BOOLEAN, c \in EngineConfigs : RefCallsGetConfig(t, c)
  \/ ConfigStartInjection
  \/ \E t \in BOOLEAN, c \in EngineConfigs : CmpCallsGetConfig(t, c)

SpecConfig == InitConfig /\ [][NextConfig]_vars

(***************************************************************************)
(* SpecRng: the registry, the instrumented PseudoRandom                    *)
(* (openfrontCheckout.ts 36-94) and captureRngSnapshot                     *)
(* (stateCapture.ts 70-92) on their own, driven by any caller.             *)
(***************************************************************************)
\* the ticks a caller hands to captureRngSnapshot
CaptureTicks == {-1, 0, SpawnPhaseTicks, SpawnPhaseTicks + 1}

\* the variables of compareCommits that the registry operations do not touch
orchRest == <<pc, pass, cpuProfile, numTicks, rate, profSession, cpuProfilePath,
              pending, rejection, installed, installCalls, cleanupCalls, simThrew,
              passDone, tick, gameStateSnapshotTick0, gameStateSnapshotTick30,
              capturedState, callLog, justRestored, warnings>>

InitRng ==
  /\ pc = "unit"
  /\ pass = "ref"
  /\ cpuProfile = FALSE
  /\ numTicks = 0
  /\ rate = <<>>
  /\ profSession = FALSE
  /\ cpuProfilePath = FALSE
  /\ pending = NoError
  /\ rejection = NoError
  /\ installed = {}
  /\ installCalls = <<>>
  /\ cleanupCalls = <<>>
  /\ simThrew = <<>>
  /\ passDone = <<>>
  /\ registry = NoRegistry
  /\ streams = <<>>
  /\ tick = 0
  /\ rngSnapshotsByTick = <<>>
  /\ gameStateSnapshotTick0 = NullSnapshot
  /\ gameStateSnapshotTick30 = NullSnapshot
  /\ capturedState = <<>>
  /\ callLog = <<>>
  /\ justRestored = FALSE
  /\ warnings = <<>>
  /\ shadow = <<>>
  /\ sinceReset = {}
  /\ rngHist = [ops |-> 0, resets |-> 0, roundTrips |-> 0, captures |-> 0]
  /\ IdsIdle
  /\ InstallIdle
  /\ ConfigIdle
  /\ SpawnIdle
  /\ ValidateIdle
  /\ EconomyIdle
  /\ WarnIdle
  /\ InitWrapIdle
  /\ ArgsIdle
  /\ TerrainIdle

\* new PseudoRandom(seed)
UnitConstruct(seed) ==
  /\ rngHist.ops < MaxRngOps
  /\ LET c == ConstructPseudoRandom(registry, streams, "ref", seed)
     IN  /\ registry' = c.registry
         /\ streams' = c.streams
         /\ shadow' = Append(shadow, c.streams[Len(c.streams)])
  /\ sinceReset' = sinceReset \cup {Len(streams) + 1}
  /\ rngHist' = [rngHist EXCEPT !.ops = @ + 1]
  /\ UNCHANGED <<rngSnapshotsByTick, orchRest>>
  /\ UNCHANGED outsideRngUnit

\* one draw of a stream
UnitDraw(h) ==
  /\ rngHist.ops < MaxRngOps
  /\ streams' = [streams EXCEPT ![h] = Draw(@, 1)]
  /\ shadow' = [shadow EXCEPT ![h] = Draw(@, 1)]
  /\ rngHist' = [rngHist EXCEPT !.ops = @ + 1]
  /\ UNCHANGED <<registry, rngSnapshotsByTick, sinceReset, orchRest>>
  /\ UNCHANGED outsideRngUnit

\* rng.__replayAnalyzerSetState(rng.__replayAnalyzerGetState())
UnitRoundTrip(h) ==
  /\ rngHist.ops < MaxRngOps
  /\ streams' = [streams EXCEPT ![h] = SetState(@, GetState(@))]
  /\ rngHist' = [rngHist EXCEPT !.ops = @ + 1, !.roundTrips = @ + 1]
  /\ UNCHANGED <<registry, rngSnapshotsByTick, shadow, sinceReset, orchRest>>
  /\ UNCHANGED outsideRngUnit

\* __replayAnalyzerResetPseudoRandomRegistry()
UnitReset ==
  /\ rngHist.ops < MaxRngOps
  /\ registry' = ResetPseudoRandomRegistry(registry)
  /\ sinceReset' = {}
  /\ rngHist' = [rngHist EXCEPT !.ops = @ + 1, !.resets = @ + 1]
  /\ UNCHANGED <<streams, rngSnapshotsByTick, shadow, orchRest>>
  /\ UNCHANGED outsideRngUnit

\* captureRngSnapshot(t)
UnitCapture(t) ==
  /\ rngHist.ops < MaxRngOps
  /\ rngSnapshotsByTick' = CaptureRngSnapshot(t, registry, streams, rngSnapshotsByTick)
  /\ rngHist' = [rngHist EXCEPT !.ops = @ + 1, !.captures = @ + 1]
  /\ UNCHANGED <<registry, streams, shadow, sinceReset, orchRest>>
  /\ UNCHANGED outsideRngUnit

NextRng ==
  \/ \E seed \in Seeds : UnitConstruct(seed)
  \/ \E h \in 1..Len(streams) : UnitDraw(h)
  \/ \E h \in 1..Len(streams) : UnitRoundTrip(h)
  \/ UnitReset
  \/ \E t \in CaptureTicks : UnitCapture(t)

SpecRng == InitRng /\ [][NextRng]_vars

(***************************************************************************)
(* restoreRngSnapshot on its own (SpecRestore): registries and streams     *)
(* built by the unit operations, and every captured snapshot of up to      *)
(* MaxSnapEntries entries handed to installStateInjection                  *)
(***************************************************************************)

MaxSnapEntries == 2

\* the { seed, index, state } entries of a captured snapshot
SnapEntries ==
  [seed : Seeds, index : 0..1,
   state : {[null |-> FALSE, seed |-> 1, pos |-> 1], NullState}]

\* CapturedState.rngSnapshotsByTick: nothing captured, or a snapshot of tick 0
CapturedSnapshots ==
  {<<>>} \cup {(0 :> snaps) : snaps \in UNION {[1..n -> SnapEntries] : n \in 0..MaxSnapEntries}}

\* restoreRngSnapshot(t), once
UnitRestore(t, snapshots) ==
  /\ rngHist.ops < MaxRngOps
  /\ callLog = <<>>
  /\ capturedState' = [rngSnapshotsByTick |-> snapshots]
  /\ tick' = t
  /\ streams' = RestoreRngSnapshot(t, capturedState', registry, streams)
  /\ callLog' = <<<<"restoreRngSnapshot", t>>>>
  /\ rngHist' = [rngHist EXCEPT !.ops = @ + 1]
  /\ UNCHANGED <<pc, pass, cpuProfile, numTicks, rate, profSession, cpuProfilePath,
                 pending, rejection, installed, installCalls, cleanupCalls,
                 simThrew, passDone, registry, rngSnapshotsByTick,
                 gameStateSnapshotTick0, gameStateSnapshotTick30, justRestored,
                 warnings, shadow, sinceReset>>
  /\ UNCHANGED outsideRngUnit

NextRestore ==
  \/ \E seed \in Seeds : UnitConstruct(seed)
  \/ \E h \in 1..Len(streams) : UnitDraw(h)
  \/ UnitReset
  \/ \E t \in {0, 1}, snapshots \in CapturedSnapshots : UnitRestore(t, snapshots)

SpecRestore == InitRng /\ [][NextRestore]_vars

(***************************************************************************)
(* SpecSpawn: the GameRunner.init wrappers: patchedAddExecution of the     *)
(* capture pass (stateCapture.ts 125-147) and of the injection pass        *)
(* (compareCommits.ts 630-651).                                            *)
(***************************************************************************)
\* an execution handed to game.addExecution: its constructor name, its
\* playerInfo (id, when it is a string; name; playerType) and its tile (when
\* it is a number)
Exec(kind, hasId, id, hasTile, tile, name, type) ==
  [kind |-> kind, hasId |-> hasId, id |-> id, hasTile |-> hasTile, tile |-> tile,
   name |-> name, type |-> type]

ExecChoices ==
  { Exec("SpawnExecution", TRUE, "p1", TRUE, 1, "n1", "HUMAN"),
    Exec("SpawnExecution", TRUE, "p1", TRUE, 2, "n2", "HUMAN"),
    Exec("SpawnExecution", TRUE, "p2", TRUE, 1, "n3", "BOT"),
    Exec("SpawnExecution", TRUE, "p1", FALSE, 0, "n1", "HUMAN"),
    Exec("SpawnExecution", FALSE, "", TRUE, 1, "n1", "HUMAN"),
    Exec("AttackExecution", TRUE, "p1", TRUE, 2, "n1", "HUMAN") }

PlayerIds == {"p1", "p2"}

\* the argument lists of one addExecution call
ExecLists == UNION {[1..n -> ExecChoices] : n \in 0..MaxCallLen}

\* game.cell(tile)
Cell(tile) == [x |-> tile, y |-> tile + tile]

SpawnRecord(ex) ==
  [tile |-> ex.tile, x |-> Cell(ex.tile).x, y |-> Cell(ex.tile).y,
   name |-> ex.name, type |-> ex.type]

RECURSIVE CaptureSpawns_FirstWins(_, _, _)
\* keeps the first assignment of a player
CaptureSpawns_FirstWins(execs, cellThrows, map) ==
  IF execs = <<>> THEN map
  ELSE LET ex == Head(execs)
           next == IF ex.kind # "SpawnExecution" THEN map
                   ELSE IF ~ex.hasId THEN map
                   ELSE IF ~ex.hasTile THEN map
                   ELSE IF cellThrows THEN map
                   ELSE IF ex.id \in DOMAIN map THEN map
                   ELSE (ex.id :> SpawnRecord(ex)) @@ map
       IN  CaptureSpawns_FirstWins(Tail(execs), cellThrows, next)

RECURSIVE CaptureSpawns(_, _, _)
\* stateCapture.ts 126-145: the loop of patchedAddExecution
CaptureSpawns(execs, cellThrows, map) ==
  IF execs = <<>> THEN map
  ELSE LET ex == Head(execs)
           next == IF ex.kind # "SpawnExecution" THEN map    \* 127
                   ELSE IF ~ex.hasId THEN map                \* 130
                   ELSE IF ~ex.hasTile THEN map              \* 132
                   ELSE IF cellThrows THEN map               \* 133-144
                   ELSE (ex.id :> SpawnRecord(ex)) @@ map    \* 135-141
       IN  CaptureSpawns(Tail(execs), cellThrows, next)

\* stateCapture.ts 125-147: patchedAddExecution of the capture pass
CaptureAddExecution(execs, cellThrows, map) ==
  [map |-> CaptureSpawns(execs, cellThrows, map),
   forwarded |-> execs,                                      \* 146
   calls |-> 1]

\* overwrites the tile and leaves the name
OverrideSpawn_KeepsName(ex, spawnMap) ==
  IF ex.kind # "SpawnExecution" THEN ex
  ELSE IF ~ex.hasId THEN ex
  ELSE IF ex.id \notin DOMAIN spawnMap THEN ex
  ELSE [ex EXCEPT !.tile = spawnMap[ex.id].tile, !.hasTile = TRUE]

\* compareCommits.ts 632-648: one execution in the loop of patchedAddExecution
OverrideSpawn(ex, spawnMap) ==
  IF ex.kind # "SpawnExecution" THEN ex                      \* 632
  ELSE IF ~ex.hasId THEN ex                                  \* 635
  ELSE IF ex.id \notin DOMAIN spawnMap THEN ex               \* 636-637
  ELSE [ex EXCEPT !.tile = spawnMap[ex.id].tile, !.hasTile = TRUE,   \* 640
                  !.name = spawnMap[ex.id].name]                     \* 642-644

\* compareCommits.ts 630-651: patchedAddExecution of the injection pass
InjectAddExecution(execs, spawnMap) ==
  [forwarded |-> [i \in 1..Len(execs) |-> OverrideSpawn(execs[i], spawnMap)],   \* 650
   calls |-> 1]

InitSpawn ==
  /\ spPhase = "ref"
  /\ spawnAssignmentsByPlayerId = <<>>
  /\ capturedSpawn = <<>>
  /\ scheduled = <<>>
  /\ forwarded = <<>>
  /\ spCalls = [intercepted |-> 0, forwarded |-> 0]
  /\ warnings = <<>>
  /\ IdsIdle
  /\ OrchIdle
  /\ InstallIdle
  /\ ConfigIdle
  /\ RngUnitIdle
  /\ ValidateIdle
  /\ EconomyIdle
  /\ WarnIdle
  /\ InitWrapIdle
  /\ ArgsIdle
  /\ TerrainIdle

\* the reference engine's init calls game.addExecution(...execs)
RefInitAddsExecutions(execs, cellThrows) ==
  /\ spPhase = "ref"
  /\ spCalls.intercepted < MaxExecs
  /\ Len(scheduled) + Len(execs) <= MaxExecs
  /\ LET r == CaptureAddExecution(execs, cellThrows, spawnAssignmentsByPlayerId)
     IN  /\ spawnAssignmentsByPlayerId' = r.map
         /\ forwarded' = forwarded \o r.forwarded
         /\ spCalls' = [intercepted |-> spCalls.intercepted + 1,
                        forwarded |-> spCalls.forwarded + r.calls]
  /\ scheduled' = scheduled \o [i \in 1..Len(execs) |->
                                  [exec |-> execs[i], cellThrows |-> cellThrows]]
  /\ UNCHANGED <<spPhase, capturedSpawn, warnings>>
  /\ UNCHANGED outsideSpawn

\* getCapturedState (stateCapture.ts 240), then installStateInjection
SpawnStartInjection ==
  /\ spPhase = "ref"
  /\ spPhase' = "cmp"
  /\ capturedSpawn' = spawnAssignmentsByPlayerId
  /\ scheduled' = <<>>
  /\ forwarded' = <<>>
  /\ spCalls' = [intercepted |-> 0, forwarded |-> 0]
  /\ UNCHANGED <<spawnAssignmentsByPlayerId, warnings>>
  /\ UNCHANGED outsideSpawn

\* the comparison engine's init calls game.addExecution(...execs)
CmpInitAddsExecutions(execs) ==
  /\ spPhase = "cmp"
  /\ spCalls.intercepted < MaxExecs
  /\ Len(scheduled) + Len(execs) <= MaxExecs
  /\ LET r == InjectAddExecution(execs, capturedSpawn)
     IN  /\ forwarded' = forwarded \o r.forwarded
         /\ spCalls' = [intercepted |-> spCalls.intercepted + 1,
                        forwarded |-> spCalls.forwarded + r.calls]
  /\ scheduled' = scheduled \o [i \in 1..Len(execs) |->
                                  [exec |-> execs[i], cellThrows |-> FALSE]]
  /\ UNCHANGED <<spPhase, spawnAssignmentsByPlayerId, capturedSpawn, warnings>>
  /\ UNCHANGED outsideSpawn

NextSpawn ==
  \/ \E execs \in ExecLists, cellThrows \in BOOLEAN :
       RefInitAddsExecutions(execs, cellThrows)
  \/ SpawnStartInjection
  \/ \E execs \in ExecLists : CmpInitAddsExecutions(execs)

SpecSpawn == InitSpawn /\ [][NextSpawn]_vars

(***************************************************************************)
(* SpecValidate: the game-state snapshots with their fields:               *)
(* captureGameStateSnapshotTick0 / Tick30 (stateCapture.ts 247-314) and    *)
(* validateGameStateSnapshotTick0 / Tick30 (compareCommits.ts 800-907).    *)
(***************************************************************************)
\* game.hash(), or null when the game has no hash function
NullHash == [null |-> TRUE, v |-> 0]
Hashes == {NullHash, [null |-> FALSE, v |-> 1], [null |-> FALSE, v |-> 2]}

\* player.tiles() has one or two tiles
TileCounts == {1, 2}

\* game.allPlayers(), each player with id() and the size of tiles()
PlayerLists ==
  {<<>>}
    \cup {<<[id |-> i, tileCount |-> c]>> : i \in PlayerIds, c \in TileCounts}
    \cup {<<[id |-> "p1", tileCount |-> c], [id |-> "p2", tileCount |-> d]>> :
            c \in TileCounts, d \in TileCounts}

\* game.ticks() when onGameInitialized runs: 0 in the reference engine, 0 or 1 in
\* the engine under comparison
RefInitTicks == {0}
InitTicks == {0, 1}

\* what a game shows to the accessors
Games == [players : PlayerLists, hash : Hashes]

IdsOf(players) == [i \in 1..Len(players) |-> players[i].id]
IdSet(ids) == {ids[i] : i \in 1..Len(ids)}

NullSnapshotTick0 ==
  [present |-> FALSE, tick |-> 0, playerCount |-> 0, playerIds |-> <<>>,
   hash |-> NullHash]
NullSnapshotTick30 ==
  [present |-> FALSE, tick |-> 0, playersWithTiles |-> <<>>, hash |-> NullHash]

WarnFailedToValidate(t) == <<"Failed to validate snapshot", t>>
WarnPlayerCount(t) == <<"Player count mismatch", t>>
WarnPlayerIds(t) == <<"Player ID mismatch", t>>
\* the two per-player warnings name the player
PlayerNo(id) == IF id = "p1" THEN 1 ELSE 2
WarnPlayerMissing(id) == <<"Player missing in current run", PlayerNo(id)>>
WarnTileCount(id) == <<"Tile count mismatch for player", PlayerNo(id)>>
WarnHash(t) == <<"Hash mismatch", t>>

\* stateCapture.ts 248-267: the snapshot is assigned unless an accessor throws
CaptureTick0Observables(g, t, throws, snap) ==
  IF throws THEN snap
  ELSE [present |-> TRUE, tick |-> t, playerCount |-> Len(g.players),
        playerIds |-> IdsOf(g.players), hash |-> g.hash]

\* stateCapture.ts 270-313
CaptureTick30Observables(g, t, throws, snap) ==
  IF throws THEN snap
  ELSE [present |-> TRUE, tick |-> t, playersWithTiles |-> g.players, hash |-> g.hash]

\* warns as soon as one of the two hashes is null
ValidateTick0Observables_WarnsOnNullHash(snapshot, g, t, throws, ws) ==
  IF ~snapshot.present THEN Append(ws, WarnNoTick0)
  ELSE LET w1 == IF snapshot.tick # t THEN Append(ws, WarnTickMismatch(t)) ELSE ws
       IN  IF throws THEN Append(w1, WarnFailedToValidate(t))
           ELSE LET ids == IdsOf(g.players)
                    w2 == IF Len(g.players) # snapshot.playerCount
                          THEN Append(w1, WarnPlayerCount(t)) ELSE w1
                    w3 == IF IdSet(snapshot.playerIds) # IdSet(ids)
                          THEN Append(w2, WarnPlayerIds(t)) ELSE w2
                IN  IF snapshot.hash.null \/ g.hash.null \/ snapshot.hash # g.hash
                    THEN Append(w3, WarnHash(t)) ELSE w3

\* compareCommits.ts 800-844
ValidateTick0Observables(snapshot, g, t, throws, ws) ==
  IF ~snapshot.present THEN Append(ws, WarnNoTick0)                      \* 801-805
  ELSE LET w1 == IF snapshot.tick # t                                    \* 808-810
                 THEN Append(ws, WarnTickMismatch(t)) ELSE ws
       IN  IF throws THEN Append(w1, WarnFailedToValidate(t))            \* 841-843
           ELSE LET ids == IdsOf(g.players)
                    w2 == IF Len(g.players) # snapshot.playerCount       \* 818-822
                          THEN Append(w1, WarnPlayerCount(t)) ELSE w1
                    w3 == IF IdSet(snapshot.playerIds) # IdSet(ids)      \* 825-832
                          THEN Append(w2, WarnPlayerIds(t)) ELSE w2
                IN  IF ~snapshot.hash.null /\ ~g.hash.null /\ snapshot.hash # g.hash
                    THEN Append(w3, WarnHash(t)) ELSE w3                 \* 834-838

\* the current player with the id, as a sequence of zero or one players
CurrentPlayer(players, id) ==
  SelectSeq(players, LAMBDA q : q.id = id)

\* compares the first reference player only
ComparePlayers_FirstOnly(refPlayers, players, ws) ==
  IF refPlayers = <<>> THEN ws
  ELSE LET r == Head(refPlayers)
           c == CurrentPlayer(players, r.id)
       IN  IF c = <<>> THEN Append(ws, WarnPlayerMissing(r.id))
           ELSE IF c[Len(c)].tileCount # r.tileCount
           THEN Append(ws, WarnTileCount(r.id))
           ELSE ws

RECURSIVE ComparePlayers(_, _, _)
\* compareCommits.ts 875-891: the loop over the reference players
ComparePlayers(refPlayers, players, ws) ==
  IF refPlayers = <<>> THEN ws
  ELSE LET r == Head(refPlayers)
           c == CurrentPlayer(players, r.id)
           w == IF c = <<>> THEN Append(ws, WarnPlayerMissing(r.id))     \* 877-880
                ELSE IF c[Len(c)].tileCount # r.tileCount                \* 885-890
                THEN Append(ws, WarnTileCount(r.id))
                ELSE ws
       IN  ComparePlayers(Tail(refPlayers), players, w)

\* goes on comparing after the warning about the missing snapshot
ValidateTick30Observables_ComparesWithoutSnapshot(snapshot, g, t, throws, ws) ==
  LET w0 == IF ~snapshot.present THEN Append(ws, WarnNoTick30) ELSE ws
      w1 == IF snapshot.tick # t THEN Append(w0, WarnTickMismatch(t)) ELSE w0
  IN  IF throws THEN Append(w1, WarnFailedToValidate(t))
      ELSE LET w2 == IF Len(g.players) # Len(snapshot.playersWithTiles)
                     THEN Append(w1, WarnPlayerCount(t)) ELSE w1
               w3 == ComparePlayers(snapshot.playersWithTiles, g.players, w2)
           IN  IF ~snapshot.hash.null /\ ~g.hash.null /\ g.hash # snapshot.hash
               THEN Append(w3, WarnHash(t)) ELSE w3

\* compareCommits.ts 845-907
ValidateTick30Observables(snapshot, g, t, throws, ws) ==
  IF ~snapshot.present THEN Append(ws, WarnNoTick30)                     \* 846-850
  ELSE LET w1 == IF snapshot.tick # t                                    \* 853-855
                 THEN Append(ws, WarnTickMismatch(t)) ELSE ws
       IN  IF throws THEN Append(w1, WarnFailedToValidate(t))            \* 904-906
           ELSE LET w2 == IF Len(g.players) # Len(snapshot.playersWithTiles)
                          THEN Append(w1, WarnPlayerCount(t)) ELSE w1    \* 862-867
                    w3 == ComparePlayers(snapshot.playersWithTiles, g.players, w2)
                IN  IF ~snapshot.hash.null /\ ~g.hash.null /\ g.hash # snapshot.hash
                    THEN Append(w3, WarnHash(t)) ELSE w3                 \* 894-903

\* the observables the two validations look at
ObservedAtInit(g, t) == [tick |-> t, ids |-> IdSet(IdsOf(g.players)),
                         count |-> Len(g.players), hash |-> g.hash]
ObservedAtSpawnEnd(g, t) == [tick |-> t, players |-> g.players, hash |-> g.hash]

\* the observables of the comparison game that differ from the reference's
DiffAtInit(ref, g, t, throws) ==
  [threw |-> throws,
   tick |-> ref.tick # t,
   count |-> ref.count # Len(g.players),
   ids |-> ref.ids # IdSet(IdsOf(g.players)),
   hash |-> ref.hash # g.hash]

TileCountOf(players, id) ==
  LET c == CurrentPlayer(players, id) IN IF c = <<>> THEN 0 ELSE c[Len(c)].tileCount

DiffAtSpawnEnd(ref, g, t, throws) ==
  LET refIds == IdSet(IdsOf(ref.players))
      curIds == IdSet(IdsOf(g.players))
  IN  [threw |-> throws,
       tick |-> ref.tick # t,
       count |-> Len(ref.players) # Len(g.players),
       missing |-> refIds \ curIds,
       tiles |-> {i \in refIds \cap curIds :
                    TileCountOf(ref.players, i) # TileCountOf(g.players, i)},
       hash |-> ref.hash # g.hash]

NoDiffAtInit == [threw |-> FALSE, tick |-> FALSE, count |-> FALSE, ids |-> FALSE,
                 hash |-> FALSE]
NoDiffAtSpawnEnd == [threw |-> FALSE, tick |-> FALSE, count |-> FALSE, missing |-> {},
                     tiles |-> {}, hash |-> FALSE]

NoResult == [returned |-> FALSE, referenceReport |-> FALSE, comparisonReport |-> FALSE,
             injectionWarnings |-> <<>>]

InitValidate ==
  /\ vStage = "capture0"
  /\ snapshotTick0 = NullSnapshotTick0
  /\ snapshotTick30 = NullSnapshotTick30
  /\ refObserved = [ok0 |-> FALSE, at0 |-> ObservedAtInit([players |-> <<>>, hash |-> NullHash], 0),
                    ok30 |-> FALSE,
                    at30 |-> ObservedAtSpawnEnd([players |-> <<>>, hash |-> NullHash], 0)]
  /\ sameObserved = [at0 |-> FALSE, at30 |-> FALSE]
  /\ diffObserved = [at0 |-> NoDiffAtInit, at30 |-> NoDiffAtSpawnEnd]
  /\ appended = [at0 |-> <<>>, at30 |-> <<>>, validated30 |-> FALSE]
  /\ vResult = NoResult
  /\ warnings = <<>>
  /\ IdsIdle
  /\ OrchIdle
  /\ InstallIdle
  /\ ConfigIdle
  /\ RngUnitIdle
  /\ SpawnIdle
  /\ TerrainIdle
  /\ ArgsIdle
  /\ InitWrapIdle
  /\ WarnIdle
  /\ EconomyIdle

\* reference pass, onGameInitialized: captureGameStateSnapshotTick0(game, game.ticks())
RefCapturesTick0(g, t, throws) ==
  /\ vStage = "capture0"
  /\ snapshotTick0' = CaptureTick0Observables(g, t, throws, snapshotTick0)
  /\ refObserved' = IF throws THEN refObserved
                    ELSE [refObserved EXCEPT !.ok0 = TRUE, !.at0 = ObservedAtInit(g, t)]
  /\ vStage' = "capture30"
  /\ UNCHANGED <<snapshotTick30, sameObserved, diffObserved, appended, vResult, warnings>>
  /\ UNCHANGED outsideValidate

\* reference pass, onAfterTick at tick 30: captureGameStateSnapshotTick30(game, 30)
RefCapturesTick30(g, throws) ==
  /\ vStage = "capture30"
  /\ snapshotTick30' = CaptureTick30Observables(g, SpawnPhaseTicks, throws, snapshotTick30)
  /\ refObserved' = IF throws THEN refObserved
                    ELSE [refObserved EXCEPT
                            !.ok30 = TRUE, !.at30 = ObservedAtSpawnEnd(g, SpawnPhaseTicks)]
  /\ vStage' = "validate0"
  /\ UNCHANGED <<snapshotTick0, sameObserved, diffObserved, appended, vResult, warnings>>
  /\ UNCHANGED outsideValidate

\* the reference replay ends before tick 30
RefEndsBeforeTick30 ==
  /\ vStage = "capture30"
  /\ vStage' = "validate0"
  /\ UNCHANGED <<snapshotTick0, snapshotTick30, refObserved, sameObserved, diffObserved,
                 appended, vResult, warnings>>
  /\ UNCHANGED outsideValidate

\* comparison pass, onGameInitialized: validateGameStateSnapshotTick0(game, game.ticks())
CmpValidatesTick0(g, t, throws) ==
  /\ vStage = "validate0"
  /\ warnings' = ValidateTick0Observables(snapshotTick0, g, t, throws, warnings)
  /\ sameObserved' = [sameObserved EXCEPT
                        !.at0 = /\ refObserved.ok0
                                /\ ~throws
                                /\ ObservedAtInit(g, t) = refObserved.at0]
  /\ diffObserved' = [diffObserved EXCEPT
                        !.at0 = DiffAtInit(refObserved.at0, g, t, throws)]
  /\ appended' = [appended EXCEPT !.at0 = AppendedBy(warnings, warnings')]
  /\ vStage' = "validate30"
  /\ UNCHANGED <<snapshotTick0, snapshotTick30, refObserved, vResult>>
  /\ UNCHANGED outsideValidate

\* comparison pass, onAfterTick at tick 30: validateGameStateSnapshotTick30(game, 30)
CmpValidatesTick30(g, throws) ==
  /\ vStage = "validate30"
  /\ warnings' = ValidateTick30Observables(snapshotTick30, g, SpawnPhaseTicks, throws,
                                           warnings)
  /\ sameObserved' = [sameObserved EXCEPT
                        !.at30 = /\ refObserved.ok30
                                 /\ ~throws
                                 /\ ObservedAtSpawnEnd(g, SpawnPhaseTicks) = refObserved.at30]
  /\ diffObserved' = [diffObserved EXCEPT
                        !.at30 = DiffAtSpawnEnd(refObserved.at30, g, SpawnPhaseTicks, throws)]
  /\ appended' = [appended EXCEPT !.at30 = AppendedBy(warnings, warnings'),
                                  !.validated30 = TRUE]
  /\ vStage' = "done"
  /\ UNCHANGED <<snapshotTick0, snapshotTick30, refObserved, vResult>>
  /\ UNCHANGED outsideValidate

\* the comparison replay ends before tick 30
CmpEndsBeforeTick30 ==
  /\ vStage = "validate30"
  /\ vStage' = "done"
  /\ UNCHANGED <<snapshotTick0, snapshotTick30, refObserved, sameObserved, diffObserved,
                 appended, vResult, warnings>>
  /\ UNCHANGED outsideValidate

\* compareCommits returns the ComparisonResult (546-555)
CompareCommitsReturns ==
  /\ vStage = "done"
  /\ vResult' = [returned |-> TRUE, referenceReport |-> TRUE, comparisonReport |-> TRUE,
                 injectionWarnings |-> warnings]
  /\ vStage' = "returned"
  /\ UNCHANGED <<snapshotTick0, snapshotTick30, refObserved, sameObserved, diffObserved,
                 appended, warnings>>
  /\ UNCHANGED outsideValidate

NextValidate ==
  \/ \E g \in Games, t \in RefInitTicks, throws \in BOOLEAN : RefCapturesTick0(g, t, throws)
  \/ \E g \in Games, throws \in BOOLEAN : RefCapturesTick30(g, throws)
  \/ RefEndsBeforeTick30
  \/ \E g \in Games, t \in InitTicks, throws \in BOOLEAN : CmpValidatesTick0(g, t, throws)
  \/ \E g \in Games, throws \in BOOLEAN : CmpValidatesTick30(g, throws)
  \/ CmpEndsBeforeTick30
  \/ CompareCommitsReturns

SpecValidate == InitValidate /\ [][NextValidate]_vars

(***************************************************************************)
(* SpecTerrain: the loadTerrainMap wrappers of the two passes              *)
(* (stateCapture.ts 160-195, compareCommits.ts 686-748).                   *)
(***************************************************************************)
\* content of the terrain file of a checkout
TerrainContents == {1, 2}
\* the empty Uint8Array
EmptyBuffer == 0
\* mapDataHash before any capture: the empty string
NoMapHash == 0

\* what the original loadTerrainMap resolves to: no gameMap, a Uint8Array with
\* the terrain content, or another object built from the terrain content
TerrainResults ==
  {[hasGameMap |-> FALSE, isBytes |-> FALSE, content |-> EmptyBuffer]}
    \cup [hasGameMap : {TRUE}, isBytes : BOOLEAN, content : TerrainContents]

\* loader.getMapData(map).manifest(): its nations, each standing for a name
\* with its coordinates
NoNations == [hasNations |-> FALSE, nations |-> <<>>]
\* a nation of the manifest: { name, coordinates: [x, y] }
Nation(name, x, y) == [name |-> name, x |-> x, y |-> y]

NationLists ==
  {<<Nation("a", 1, 1)>>,
   <<Nation("b", 1, 1)>>,
   <<Nation("a", 1, 1), Nation("b", 2, 2)>>,
   <<Nation("a", 2, 1), Nation("b", 2, 2)>>,
   <<Nation("a", 1, 1), Nation("b", 2, 1)>>}

Manifests ==
  {NoNations} \cup [hasNations : {TRUE}, nations : NationLists]

\* result.gameMap instanceof Uint8Array ? result.gameMap : new Uint8Array(0)
MapBuffer(result) == IF result.isBytes THEN result.content ELSE EmptyBuffer

\* crypto.createHash("sha256").update(buffer).digest("hex"): one digest per
\* buffer content, never the empty string
Sha256Hex(buffer) == 1000 + buffer

WarnNationCount == <<"Nation count mismatch", 0>>
WarnNation(i) == <<"Nation mismatch", i>>
WarnMapHash == <<"Map data hash mismatch - terrain changes detected", 0>>
WarnMapValidate == <<"Could not validate map data", 0>>

\* stateCapture.ts 169-194, after the original resolved
CaptureLoadTerrainMap(result, manifest, manifestThrows, hash, nations) ==
  IF manifestThrows THEN [mapDataHash |-> hash, nationManifest |-> nations]  \* 190-192
  ELSE [mapDataHash |-> IF result.hasGameMap                                 \* 177-180
                        THEN Sha256Hex(MapBuffer(result)) ELSE hash,
        nationManifest |-> IF manifest.hasNations                            \* 183-188
                           THEN manifest.nations ELSE nations]

RECURSIVE CompareNations_NamesOnly(_, _, _, _)
\* compares the names and not the coordinates
CompareNations_NamesOnly(i, ref, current, ws) ==
  IF i > Len(ref) THEN ws
  ELSE CompareNations_NamesOnly(i + 1, ref, current,
                                IF ref[i].name # current[i].name
                                THEN Append(ws, WarnNation(i)) ELSE ws)

RECURSIVE CompareNations(_, _, _, _)
\* compareCommits.ts 713-723
CompareNations(i, ref, current, ws) ==
  IF i > Len(ref) THEN ws                                                    \* 714
  ELSE CompareNations(i + 1, ref, current,
                      IF \/ ref[i].name # current[i].name                    \* 717
                         \/ ref[i].x # current[i].x                          \* 718
                         \/ ref[i].y # current[i].y                          \* 719
                      THEN Append(ws, WarnNation(i)) ELSE ws)

\* compareCommits.ts 695-747, after the original resolved
ValidateLoadTerrainMap(result, manifest, manifestThrows, captured, ws) ==
  IF manifestThrows THEN Append(ws, WarnMapValidate)                         \* 742-744
  ELSE LET currentNations == manifest.nations                                \* 703-706
           w1 == IF Len(captured.nationManifest) # Len(currentNations)       \* 708-724
                 THEN Append(ws, WarnNationCount)
                 ELSE CompareNations(1, captured.nationManifest, currentNations, ws)
       IN  IF captured.mapDataHash # NoMapHash /\ result.hasGameMap          \* 727-740
              /\ Sha256Hex(MapBuffer(result)) # captured.mapDataHash
           THEN Append(w1, WarnMapHash) ELSE w1

\* calls of loadTerrainMap in one pass
MaxTerrainLoads == 2
\* ticks simulated after the terrain is loaded
MaxTerrainTicks == 2

NoLoad == [n |-> 0, result |-> [hasGameMap |-> FALSE, isBytes |-> FALSE,
                               content |-> EmptyBuffer],
           manifestThrew |-> FALSE]

InitTerrain ==
  /\ tPass = "ref"
  /\ mapDataHash = NoMapHash
  /\ nationManifest = <<>>
  /\ capturedMap = [mapDataHash |-> NoMapHash, nationManifest |-> <<>>]
  /\ tLoaded = [ref |-> NoLoad, cmp |-> NoLoad]
  /\ tOutcome = "none"
  /\ tTick = 0
  /\ warnings = <<>>
  /\ IdsIdle
  /\ OrchIdle
  /\ InstallIdle
  /\ ConfigIdle
  /\ RngUnitIdle
  /\ SpawnIdle
  /\ ValidateIdle
  /\ EconomyIdle
  /\ WarnIdle
  /\ InitWrapIdle
  /\ ArgsIdle

\* the reference engine calls the wrapped loadTerrainMap
RefLoadsTerrain(engineThrows, result, manifest, manifestThrows) ==
  /\ tPass = "ref"
  /\ tLoaded.ref.n < MaxTerrainLoads
  /\ IF engineThrows
     THEN /\ tOutcome' = "rejected"                                          \* 170
          /\ UNCHANGED <<mapDataHash, nationManifest, tLoaded>>
     ELSE LET c == CaptureLoadTerrainMap(result, manifest, manifestThrows,
                                         mapDataHash, nationManifest)
          IN  /\ mapDataHash' = c.mapDataHash
              /\ nationManifest' = c.nationManifest
              /\ tLoaded' = [tLoaded EXCEPT !.ref = [n |-> @.n + 1, result |-> result,
                                                    manifestThrew |-> manifestThrows]]
              /\ tOutcome' = "returned"
  /\ UNCHANGED <<tPass, capturedMap, tTick, warnings>>
  /\ UNCHANGED outsideTerrain

\* getCapturedState, then installStateInjection with a fresh warnings list
TerrainStartInjection ==
  /\ tPass = "ref"
  /\ tPass' = "cmp"
  /\ capturedMap' = [mapDataHash |-> mapDataHash, nationManifest |-> nationManifest]
  /\ tOutcome' = "none"
  /\ warnings' = <<>>
  /\ UNCHANGED <<mapDataHash, nationManifest, tLoaded, tTick>>
  /\ UNCHANGED outsideTerrain

\* the engine under comparison calls the wrapped loadTerrainMap
CmpLoadsTerrain(engineThrows, result, manifest, manifestThrows) ==
  /\ tPass = "cmp"
  /\ tTick = 0
  /\ tLoaded.cmp.n < MaxTerrainLoads
  /\ IF engineThrows
     THEN /\ tOutcome' = "rejected"                                          \* 696
          /\ UNCHANGED <<tLoaded, warnings>>
     ELSE /\ warnings' = ValidateLoadTerrainMap(result, manifest, manifestThrows,
                                                capturedMap, warnings)
          /\ tLoaded' = [tLoaded EXCEPT !.cmp = [n |-> @.n + 1, result |-> result,
                                                manifestThrew |-> manifestThrows]]
          /\ tOutcome' = "returned"
  /\ UNCHANGED <<tPass, mapDataHash, nationManifest, capturedMap, tTick>>
  /\ UNCHANGED outsideTerrain

\* a tick of the comparison pass: onAfterTick does not touch the terrain
CmpTickAfterTerrain ==
  /\ tPass = "cmp"
  /\ tTick < MaxTerrainTicks
  /\ tTick' = tTick + 1
  /\ UNCHANGED <<tPass, mapDataHash, nationManifest, capturedMap, tLoaded, tOutcome,
                 warnings>>
  /\ UNCHANGED outsideTerrain

\* the comparison pass ends
TerrainRunEnds ==
  /\ tPass = "cmp"
  /\ tPass' = "done"
  /\ UNCHANGED <<mapDataHash, nationManifest, capturedMap, tLoaded, tOutcome, tTick,
                 warnings>>
  /\ UNCHANGED outsideTerrain

NextTerrain ==
  \/ \E e \in BOOLEAN, r \in TerrainResults, m \in Manifests, mt \in BOOLEAN :
       RefLoadsTerrain(e, r, m, mt)
  \/ TerrainStartInjection
  \/ \E e \in BOOLEAN, r \in TerrainResults, m \in Manifests, mt \in BOOLEAN :
       CmpLoadsTerrain(e, r, m, mt)
  \/ CmpTickAfterTerrain
  \/ TerrainRunEnds

SpecTerrain == InitTerrain /\ [][NextTerrain]_vars

(***************************************************************************)
(* SpecNations: the same wrappers when the original loadTerrainMap         *)
(* resolves to a Uint8Array gameMap, the usual result, and no tick is      *)
(* simulated: the manifest check of compareCommits.ts 699-724.             *)
(***************************************************************************)
ByteResults == {r \in TerrainResults : r.hasGameMap /\ r.isBytes}

NextNations ==
  \/ \E e \in BOOLEAN, r \in ByteResults, m \in Manifests, mt \in BOOLEAN :
       RefLoadsTerrain(e, r, m, mt)
  \/ TerrainStartInjection
  \/ \E e \in BOOLEAN, r \in ByteResults, m \in Manifests, mt \in BOOLEAN :
       CmpLoadsTerrain(e, r, m, mt)
  \/ TerrainRunEnds

SpecNations == InitTerrain /\ [][NextNations]_vars

(***************************************************************************)
(* The command line: parseArgs and the mode selection of the main module   *)
(* (SpecArgs)                                                              *)
(***************************************************************************)

MaxArgs == 3

\* null and undefined of the source
Null == "null"
UndefinedValue == "undefined"

ReplayId == "CkWVL6Qe"
Commit40 == "abc123def456789012345678901234567890abcd"
ReplayCommit40 == "2e52c0a0000000000000000000000000000000ff"
ShortCommit == "abc123d"

\* the flags parseArgs tests for, in the order of its branches
KnownFlags ==
  {"--help", "-h", "--verbose", "-v", "--out", "--openfrontRoot", "--repo", "--cacheDir",
   "--noInstall", "--apiBase", "--cpuProfile", "--maxTurns", "--economySampleEvery"}

ArgTokens == KnownFlags \cup {"--compareAgainst", ReplayId, Commit40, ShortCommit, "5", "0"}

\* arg.startsWith("--")
StartsWithDashes(tok) == tok \in (KnownFlags \ {"-h", "-v"}) \cup {"--compareAgainst"}

\* /^[0-9a-f]{40}$/i.test(s), on the values that occur
Is40Hex(s) == s \in {Commit40, ReplayCommit40}

NaN == [kind |-> "NaN", value |-> 0]
NullNumber == [kind |-> "null", value |-> 0]
Number(n) == [kind |-> "number", value |-> n]

\* Number.parseInt(value, 10), on the tokens that occur
ParseInt(tok) ==
  IF tok = "5" THEN Number(5)
  ELSE IF tok = "0" THEN Number(0)
  ELSE NaN

\* Number.isFinite(x)
IsFinite(x) == x.kind = "number"

\* args.shift(): the first token, undefined when none is left
Shift(a) == IF a = <<>> THEN UndefinedValue ELSE Head(a)
Shifted(a) == IF a = <<>> THEN a ELSE Tail(a)

NoArgError == <<"none", "">>

\* args.ts 41-52
ParseDefaults ==
  [replayPath |-> Null, outPath |-> Null, maxTurns |-> NullNumber,
   economySampleEvery |-> Number(10), help |-> FALSE, verbose |-> FALSE,
   openfrontRoot |-> Null, repoUrl |-> "https://github.com/OpenFrontIO/OpenFrontIO.git",
   cacheDir |-> Null, install |-> TRUE, apiBase |-> "https://api.openfront.io",
   cpuProfile |-> FALSE]

\* value ?? null
OrNull(v) == IF v = UndefinedValue THEN Null ELSE v

\* one iteration of the while loop of parseArgs (args.ts 55-120): the locals
\* after it, the tokens left, and the Error it throws
ParseOne(p, a) ==
  LET arg == Head(a)
      rest == Tail(a)
      v == Shift(rest)
      after == Shifted(rest)
      ok(q, left) == [parsed |-> q, args |-> left, error |-> NoArgError]
      throw(q, left, msg, detail) == [parsed |-> q, args |-> left, error |-> <<msg, detail>>]
  IN  IF arg \in {"--help", "-h"} THEN ok([p EXCEPT !.help = TRUE], rest)
      ELSE IF arg \in {"--verbose", "-v"} THEN ok([p EXCEPT !.verbose = TRUE], rest)
      ELSE IF arg = "--out" THEN ok([p EXCEPT !.outPath = OrNull(v)], after)
      ELSE IF arg = "--openfrontRoot" THEN ok([p EXCEPT !.openfrontRoot = OrNull(v)], after)
      ELSE IF arg = "--repo" THEN
        IF v = UndefinedValue THEN throw(p, after, "Missing value for --repo", "")
        ELSE ok([p EXCEPT !.repoUrl = v], after)
      ELSE IF arg = "--cacheDir" THEN ok([p EXCEPT !.cacheDir = OrNull(v)], after)
      ELSE IF arg = "--noInstall" THEN ok([p EXCEPT !.install = FALSE], rest)
      ELSE IF arg = "--apiBase" THEN
        IF v = UndefinedValue
        THEN throw([p EXCEPT !.apiBase = ""], after, "Missing value for --apiBase", "")
        ELSE ok([p EXCEPT !.apiBase = v], after)
      ELSE IF arg = "--cpuProfile" THEN ok([p EXCEPT !.cpuProfile = TRUE], rest)
      ELSE IF arg = "--maxTurns" THEN
        LET n == IF v = UndefinedValue THEN NaN ELSE ParseInt(v)
            q == [p EXCEPT !.maxTurns = n]
        IN  IF ~IsFinite(n)
            THEN throw(q, after, "Invalid --maxTurns", IF v = UndefinedValue THEN "" ELSE v)
            ELSE ok(q, after)
      ELSE IF arg = "--economySampleEvery" THEN
        LET n == IF v = UndefinedValue THEN NaN ELSE ParseInt(v)
            q == [p EXCEPT !.economySampleEvery = n]
        IN  IF ~IsFinite(n) \/ n.value <= 0
            THEN throw(q, after, "Invalid --economySampleEvery",
                       IF v = UndefinedValue THEN "" ELSE v)
            ELSE ok(q, after)
      ELSE IF StartsWithDashes(arg) THEN throw(p, rest, "Unknown flag", arg)
      ELSE IF p.replayPath = Null THEN ok([p EXCEPT !.replayPath = arg], rest)
      ELSE throw(p, rest, "Unexpected argument", arg)

\* the value a destructuring reads from the object parseArgs returned:
\* undefined for a property the object does not have
Field(obj, name) == IF name \in DOMAIN obj THEN obj[name] ELSE UndefinedValue

\* if (x) on a string, null or undefined
Truthy(x) == x \notin {Null, UndefinedValue, ""}

\* what extractReplayGitCommit can return
ReplayGitCommits == {Null, ReplayCommit40, ShortCommit}

NoComparisonRun == [replay |-> Null, reference |-> Null, comparison |-> Null]

InitArgs ==
  /\ argPc = "parsing"
  /\ argv \in UNION {[1..n -> ArgTokens] : n \in 0..MaxArgs}
  /\ args = argv
  /\ parsed = ParseDefaults
  /\ argError = NoArgError
  /\ comparisonRun = NoComparisonRun
  /\ replayGitCommit = Null
  /\ mainLog = <<>>
  /\ warnings = <<>>
  /\ IdsIdle
  /\ OrchIdle
  /\ InstallIdle
  /\ ConfigIdle
  /\ RngUnitIdle
  /\ SpawnIdle
  /\ ValidateIdle
  /\ EconomyIdle
  /\ WarnIdle
  /\ InitWrapIdle
  /\ TerrainIdle

\* args.ts 55-120: one pass through the loop
ParseArg ==
  /\ argPc = "parsing"
  /\ args # <<>>
  /\ LET r == ParseOne(parsed, args)
     IN  /\ parsed' = r.parsed
         /\ args' = r.args
         /\ argError' = r.error
         /\ argPc' = IF r.error = NoArgError THEN "parsing" ELSE "threw"
  /\ UNCHANGED <<argv, comparisonRun, replayGitCommit, mainLog, warnings>>
  /\ UNCHANGED outsideArgs

\* args.ts 122-135
ParseArgsReturns ==
  /\ argPc = "parsing"
  /\ args = <<>>
  /\ argPc' = "returned"
  /\ UNCHANGED <<argv, args, parsed, argError, comparisonRun, replayGitCommit, mainLog, warnings>>
  /\ UNCHANGED outsideArgs

\* calls compareCommits without the checks of lines 130-135
MainSelectsMode_ValidatesLate(gitCommit) ==
  /\ argPc = "returned"
  /\ replayGitCommit' = IF Field(parsed, "help") \/ ~Truthy(Field(parsed, "replayPath"))
                        THEN replayGitCommit ELSE gitCommit
  /\ LET replayPath == Field(parsed, "replayPath")
         help == Field(parsed, "help")
         compareAgainst == Field(parsed, "compareAgainst")
     IN  IF help \/ ~Truthy(replayPath)
         THEN /\ argPc' = "usage"
              /\ UNCHANGED <<argError, comparisonRun>>
         ELSE IF gitCommit # Null /\ ~Is40Hex(gitCommit)
         THEN /\ argPc' = "rejected"
              /\ argError' = <<"Invalid replay gitCommit", gitCommit>>
              /\ UNCHANGED comparisonRun
         ELSE IF Truthy(compareAgainst)
         THEN /\ argPc' = "comparison"
              /\ comparisonRun' = [replay |-> replayPath,
                                   reference |-> gitCommit,
                                   comparison |-> compareAgainst]
              /\ UNCHANGED argError
         ELSE /\ argPc' = "single"
              /\ UNCHANGED <<argError, comparisonRun>>
  /\ UNCHANGED <<argv, args, parsed, mainLog, warnings>>
  /\ UNCHANGED outsideArgs

\* analyzeReplay.ts 95-155: usage, the check of the replay's commit, and the
\* choice between the comparison and the single run
MainSelectsMode(gitCommit) ==
  /\ argPc = "returned"
  /\ replayGitCommit' = IF Field(parsed, "help") \/ ~Truthy(Field(parsed, "replayPath"))
                        THEN replayGitCommit ELSE gitCommit           \* 122
  /\ LET replayPath == Field(parsed, "replayPath")
         help == Field(parsed, "help")
         compareAgainst == Field(parsed, "compareAgainst")
     IN  IF help \/ ~Truthy(replayPath)                                   \* 110-113
         THEN /\ argPc' = "usage"
              /\ UNCHANGED <<argError, comparisonRun>>
         ELSE IF gitCommit # Null /\ ~Is40Hex(gitCommit)      \* 124-126
         THEN /\ argPc' = "rejected"
              /\ argError' = <<"Invalid replay gitCommit", gitCommit>>
              /\ UNCHANGED comparisonRun
         ELSE IF Truthy(compareAgainst)                                   \* 129
         THEN IF ~Truthy(gitCommit)                                 \* 130-132
              THEN /\ argPc' = "rejected"
                   /\ argError' = <<"Cannot compare commits: replay missing gitCommit", "">>
                   /\ UNCHANGED comparisonRun
              ELSE IF ~Is40Hex(compareAgainst)                            \* 133-135
              THEN /\ argPc' = "rejected"
                   /\ argError' = <<"Invalid --compareAgainst commit", compareAgainst>>
                   /\ UNCHANGED comparisonRun
              ELSE /\ argPc' = "comparison"                               \* 140-155
                   /\ comparisonRun' = [replay |-> replayPath,
                                        reference |-> gitCommit,
                                        comparison |-> compareAgainst]
                   /\ UNCHANGED argError
         ELSE /\ argPc' = "single"
              /\ UNCHANGED <<argError, comparisonRun>>
  /\ UNCHANGED <<argv, args, parsed, mainLog, warnings>>
  /\ UNCHANGED outsideArgs

NextArgs ==
  \/ ParseArg
  \/ ParseArgsReturns
  \/ \E c \in ReplayGitCommits : MainSelectsMode(c)

SpecArgs == InitArgs /\ [][NextArgs]_vars

(***************************************************************************)
(* The main module from the object parseArgs returned on (SpecMain)        *)
(***************************************************************************)

\* the objects the main module destructures (analyzeReplay.ts 95-109),
\* compareAgainst included
ParsedObjects ==
  {[f \in DOMAIN ParseDefaults \cup {"compareAgainst"} |->
      IF f = "compareAgainst" THEN c
      ELSE IF f = "replayPath" THEN r
      ELSE IF f = "help" THEN h
      ELSE IF f = "openfrontRoot" THEN o
      ELSE IF f = "install" THEN n
      ELSE IF f = "cpuProfile" THEN u
      ELSE ParseDefaults[f]] :
     c \in {UndefinedValue, Commit40, ShortCommit}, r \in {Null, ReplayId},
     h \in BOOLEAN, o \in {Null, "openfront"}, n \in BOOLEAN, u \in BOOLEAN}

Checkout(commit) == <<"checkout", commit>>
PassStarts(which) == <<"pass", which>>

InitMain ==
  /\ argPc = "returned"
  /\ argv = <<>>
  /\ args = <<>>
  /\ parsed \in ParsedObjects
  /\ argError = NoArgError
  /\ comparisonRun = NoComparisonRun
  /\ replayGitCommit = Null
  /\ mainLog = <<>>
  /\ warnings = <<>>
  /\ IdsIdle
  /\ OrchIdle
  /\ InstallIdle
  /\ ConfigIdle
  /\ RngUnitIdle
  /\ SpawnIdle
  /\ ValidateIdle
  /\ EconomyIdle
  /\ WarnIdle
  /\ InitWrapIdle
  /\ TerrainIdle

\* compareCommits.ts 417-504: reference checkout, reference pass, comparison
\* checkout, comparison pass
ComparisonProceeds ==
  /\ argPc = "comparison"
  /\ mainLog' =
       Append(mainLog,
              CASE Len(mainLog) = 0 -> Checkout(comparisonRun.reference)    \* 417
                [] Len(mainLog) = 1 -> PassStarts("ref")                    \* 454
                [] Len(mainLog) = 2 -> Checkout(comparisonRun.comparison)   \* 477
                [] OTHER -> PassStarts("cmp"))                              \* 493
  /\ argPc' = IF Len(mainLog) = 3 THEN "compared" ELSE "comparison"
  /\ UNCHANGED <<argv, args, parsed, argError, comparisonRun, replayGitCommit, warnings>>
  /\ UNCHANGED outsideArgs

\* analyzeReplay.ts 230-305: the engine of the single run
SingleProceeds ==
  /\ argPc = "single"
  /\ LET root == Field(parsed, "openfrontRoot")
     IN  IF root = Null /\ ~Truthy(replayGitCommit)                        \* 244-246
         THEN /\ argPc' = "rejected"
              /\ argError' = <<"Replay missing gitCommit", "">>
              /\ UNCHANGED mainLog
         ELSE /\ argPc' = "simulated"
              /\ mainLog' = (IF root = Null THEN <<Checkout(replayGitCommit)>> ELSE <<>>)
                            \o <<PassStarts("single")>>
              /\ UNCHANGED argError
  /\ UNCHANGED <<argv, args, parsed, comparisonRun, replayGitCommit, warnings>>
  /\ UNCHANGED outsideArgs

NextMain ==
  \/ \E c \in ReplayGitCommits : MainSelectsMode(c)
  \/ ComparisonProceeds
  \/ SingleProceeds

SpecMain == InitMain /\ [][NextMain]_vars

(***************************************************************************)
(* Lifetime of the addExecution wrapper inside patchedInit (SpecInitWrap)  *)
(***************************************************************************)

NoHanded ==
  [during |-> "none", via |-> "none", execs |-> <<>>, received |-> <<>>,
   mapBefore |-> <<>>, mapAfter |-> <<>>]

\* typeof game?.addExecution === "function", or not
AddExecutionValues == {"original", "undefined"}

InitInitWrap ==
  /\ iwPass = "ref"
  /\ iwStage = "before"
  /\ addExecution \in AddExecutionValues
  /\ iwSpawnMap = <<>>
  /\ iwCaptured = <<>>
  /\ iwInitCalls = 0
  /\ iwHanded = NoHanded
  /\ warnings = <<>>
  /\ IdsIdle
  /\ OrchIdle
  /\ InstallIdle
  /\ ConfigIdle
  /\ RngUnitIdle
  /\ SpawnIdle
  /\ ValidateIdle
  /\ EconomyIdle
  /\ WarnIdle
  /\ TerrainIdle
  /\ ArgsIdle

\* stateCapture.ts 118-149, compareCommits.ts 622-652: patchedInit up to its
\* call of originalInit
PatchedInitStarts ==
  /\ iwStage = "before"
  /\ iwStage' = "inInit"
  /\ addExecution' = IF addExecution = "undefined" THEN addExecution   \* 121-123
                     ELSE "patched"                                    \* 125
  /\ iwInitCalls' = iwInitCalls + 1                                    \* 122, 150
  /\ UNCHANGED <<iwPass, iwSpawnMap, iwCaptured, iwHanded, warnings>>
  /\ UNCHANGED outsideInitWrap

\* leaves the wrapper on the game when originalInit is over
PatchedInitEnds_KeepsWrapper(throws) ==
  /\ iwStage = "inInit"
  /\ iwStage' = IF throws THEN "threw" ELSE "returned"
  /\ UNCHANGED <<addExecution, iwPass, iwSpawnMap, iwCaptured, iwInitCalls, iwHanded, warnings>>
  /\ UNCHANGED outsideInitWrap

\* stateCapture.ts 149-153, compareCommits.ts 652-656: originalInit returns
\* or throws, and the finally block runs
PatchedInitEnds(throws) ==
  /\ iwStage = "inInit"
  /\ iwStage' = IF throws THEN "threw" ELSE "returned"
  /\ addExecution' = IF addExecution = "patched" THEN "original" ELSE addExecution
  /\ UNCHANGED <<iwPass, iwSpawnMap, iwCaptured, iwInitCalls, iwHanded, warnings>>
  /\ UNCHANGED outsideInitWrap

\* the engine calls game.addExecution(...execs), during init or after it, and
\* the function the property holds at that moment runs
GameAddsExecution(execs, cellThrows) ==
  /\ iwStage \in {"inInit", "returned"}
  /\ addExecution # "undefined"
  /\ LET received ==
           IF addExecution = "original" THEN execs
           ELSE IF iwPass = "ref"
           THEN CaptureAddExecution(execs, cellThrows, iwSpawnMap).forwarded
           ELSE InjectAddExecution(execs, iwCaptured).forwarded
         map ==
           IF addExecution = "patched" /\ iwPass = "ref"
           THEN CaptureAddExecution(execs, cellThrows, iwSpawnMap).map
           ELSE iwSpawnMap
     IN  /\ iwSpawnMap' = map
         /\ iwHanded' = [during |-> iwStage, via |-> addExecution, execs |-> execs,
                         received |-> received, mapBefore |-> iwSpawnMap,
                         mapAfter |-> map]
  /\ UNCHANGED <<iwPass, iwStage, addExecution, iwCaptured, iwInitCalls, warnings>>
  /\ UNCHANGED outsideInitWrap

\* getCapturedState (stateCapture.ts 240); the comparison pass has a game of
\* its own
InitWrapStartInjection ==
  /\ iwPass = "ref"
  /\ iwStage = "returned"
  /\ iwPass' = "cmp"
  /\ iwStage' = "before"
  /\ iwCaptured' = iwSpawnMap
  /\ addExecution' \in AddExecutionValues
  /\ iwInitCalls' = 0
  /\ iwHanded' = NoHanded
  /\ UNCHANGED <<iwSpawnMap, warnings>>
  /\ UNCHANGED outsideInitWrap

NextInitWrap ==
  \/ PatchedInitStarts
  \/ \E throws \in BOOLEAN : PatchedInitEnds(throws)
  \/ \E execs \in ExecLists, cellThrows \in BOOLEAN : GameAddsExecution(execs, cellThrows)
  \/ InitWrapStartInjection

SpecInitWrap == InitInitWrap /\ [][NextInitWrap]_vars

(***************************************************************************)
(* The injection warning list from installStateInjection to the            *)
(* ComparisonResult (SpecWarnings)                                         *)
(***************************************************************************)

MaxWarnings == 3

\* what the wrapped entry points and restoreRngSnapshot push
HookWarnings ==
  {WarnAdditionalIds(1), WarnMapHash, <<"Failed to restore RNG snapshot", 0>>}

\* what one call of a validator pushes
ValidationWarningLists ==
  {<<>>, <<WarnNoTick0>>, <<WarnPlayerCount(0), WarnHash(0)>>}

\* `warnings: injectionWarnings` binds the array object itself: read later,
\* it has the array's content of that later moment
BoundWarnings_CopiedAtInstall(atInstall, now) == atInstall

BoundWarnings(atInstall, now) == now

InitWarnings ==
  /\ wPc = "install"
  /\ wAtInstall = <<>>
  /\ wValidations = 0
  /\ wLog = <<>>
  /\ injectionWarnings = <<>>
  /\ resultWarnings = <<>>
  /\ warnings = <<>>
  /\ IdsIdle
  /\ OrchIdle
  /\ InstallIdle
  /\ ConfigIdle
  /\ RngUnitIdle
  /\ SpawnIdle
  /\ ValidateIdle
  /\ EconomyIdle
  /\ TerrainIdle
  /\ ArgsIdle
  /\ InitWrapIdle

\* compareCommits.ts 574, 610-612, 799; 234-240
WarnInstallInjection(hasPseudoRandom) ==
  /\ wPc = "install"
  /\ wPc' = "running"
  /\ warnings' = IF hasPseudoRandom THEN <<>> ELSE <<WarnNoPseudoRandom>>
  /\ wAtInstall' = warnings'
  /\ wLog' = [i \in 1..Len(warnings') |-> <<"install", warnings'[i]>>]
  /\ UNCHANGED <<wValidations, injectionWarnings, resultWarnings>>
  /\ UNCHANGED outsideWarn

\* compareCommits.ts 602, 682, 709-743, 782: warnings.push in a hook
HookPushes(w) ==
  /\ wPc = "running"
  /\ Len(warnings) < MaxWarnings
  /\ warnings' = Append(warnings, w)
  /\ wLog' = Append(wLog, <<"hook", w>>)
  /\ UNCHANGED <<wPc, wAtInstall, wValidations, injectionWarnings, resultWarnings>>
  /\ UNCHANGED outsideWarn

\* compareCommits.ts 800-907: the pushes of one validator call
ValidationPushes(ws) ==
  /\ wPc = "running"
  /\ wValidations < 2
  /\ Len(warnings) + Len(ws) <= MaxWarnings
  /\ warnings' = warnings \o ws
  /\ wLog' = wLog \o [i \in 1..Len(ws) |-> <<"validation", ws[i]>>]
  /\ wValidations' = wValidations + 1
  /\ UNCHANGED <<wPc, wAtInstall, injectionWarnings, resultWarnings>>
  /\ UNCHANGED outsideWarn

\* simulateReplay rejects: the pass has no result
WarnPassRejects ==
  /\ wPc = "running"
  /\ wPc' = "rejected"
  /\ UNCHANGED <<wAtInstall, wValidations, wLog, injectionWarnings, resultWarnings, warnings>>
  /\ UNCHANGED outsideWarn

\* compareCommits.ts 372-376
WarnPassReturns ==
  /\ wPc = "running"
  /\ wPc' = "passReturned"
  /\ injectionWarnings' = BoundWarnings(wAtInstall, warnings)
  /\ UNCHANGED <<wAtInstall, wValidations, wLog, resultWarnings, warnings>>
  /\ UNCHANGED outsideWarn

\* compareCommits.ts 493, 546-555
WarnCompareCommitsReturns ==
  /\ wPc = "passReturned"
  /\ wPc' = "returned"
  /\ resultWarnings' = injectionWarnings
  /\ UNCHANGED <<wAtInstall, wValidations, wLog, injectionWarnings, warnings>>
  /\ UNCHANGED outsideWarn

NextWarnings ==
  \/ \E hasPseudoRandom \in BOOLEAN : WarnInstallInjection(hasPseudoRandom)
  \/ \E w \in HookWarnings : HookPushes(w)
  \/ \E ws \in ValidationWarningLists : ValidationPushes(ws)
  \/ WarnPassRejects
  \/ WarnPassReturns
  \/ WarnCompareCommitsReturns

SpecWarnings == InitWarnings /\ [][NextWarnings]_vars

(***************************************************************************)
(* SpecEconomy: createEconomyTracker (economyTracker.ts 44-318): init, the *)
(* hooked addGold of a tracked player and afterTick.  The totals kept are  *)
(* the gold totals; the donation totals and the sampled series read the    *)
(* same inputs and write no gold total.                                    *)
(***************************************************************************)
\* afterTick calls in one run
MaxEcoTicks == 2
\* largest balance p.gold() returns
MaxGold == 2
\* largest sum the caller named trains reaches in goldSourcesByClientId
MaxSourceGold == 1

\* game.allPlayers(): the player of a client and a bot without a clientID
GamePlayers ==
  <<[id |-> "bot", clientID |-> ""], [id |-> "p1", clientID |-> "c1"]>>

\* a value of the engine's statistics or of an event: a bigint, or something
\* asBigInt has no bigint for
Big(n) == <<"bigint", n>>
NotBig == <<"undefined", 0>>

\* utils.ts asBigInt, followed by ?? 0n
AsBigIntOrZero(v) == IF v[1] = "bigint" THEN v[2] ELSE 0

\* utils.ts minBigInt
MinBigInt(a, b) == IF a < b THEN a ELSE b

ZeroGoldStats == [work |-> 0, war |-> 0, trade |-> 0, steal |-> 0, train |-> 0]

\* economyTracker.ts 6-19; ps is allPlayersStats?.[clientID]
ReadGoldStatsForClient(ps) ==
  IF ~ps.goldIsArray THEN ZeroGoldStats                                      \* 9-11
  ELSE LET at(i) == IF i <= Len(ps.gold) THEN AsBigIntOrZero(ps.gold[i]) ELSE 0
       IN  [work |-> at(1), war |-> at(2), trade |-> at(3), steal |-> at(4),
            train |-> at(5)]

\* allPlayersStats?.[clientID] of one tick: no gold array, a short array, an
\* array with an entry that is no bigint, and arrays of five bigints
PlayerStatsValues ==
  {[goldIsArray |-> FALSE, gold |-> <<>>],
   [goldIsArray |-> TRUE, gold |-> <<Big(1)>>],
   [goldIsArray |-> TRUE, gold |-> <<Big(0), NotBig, Big(1), Big(0), Big(0)>>],
   [goldIsArray |-> TRUE, gold |-> <<Big(0), Big(1), Big(0), Big(0), Big(0)>>],
   [goldIsArray |-> TRUE, gold |-> <<Big(0), Big(0), Big(0), Big(1), Big(0)>>],
   [goldIsArray |-> TRUE, gold |-> <<Big(0), Big(0), Big(0), Big(0), Big(1)>>]}

\* conquestEvents of one tick
ConquestEvent(conqueredId, gold) == [conqueredId |-> conqueredId, gold |-> gold]

ConquestEventLists ==
  {<<>>,
   <<ConquestEvent("p1", Big(1))>>,
   <<ConquestEvent("p1", Big(1)), ConquestEvent("p1", Big(2))>>,
   <<ConquestEvent("p2", Big(1)), ConquestEvent("bot", Big(1))>>,
   <<ConquestEvent("p1", Big(-1)), ConquestEvent("", Big(1)),
     ConquestEvent("p1", NotBig)>>}

\* Map.get(key) ?? fallback
GetOr(map, key, fallback) == IF key \in DOMAIN map THEN map[key] ELSE fallback

RECURSIVE ConquestLossByClientId(_, _, _)
\* economyTracker.ts 234-242
ConquestLossByClientId(events, byPlayerId, loss) ==
  IF events = <<>> THEN loss
  ELSE LET cu == Head(events)
           gold == AsBigIntOrZero(cu.gold)                                   \* 237
           cid == GetOr(byPlayerId, cu.conqueredId, "")                      \* 239
       IN  ConquestLossByClientId(
             Tail(events), byPlayerId,
             IF cu.conqueredId = "" \/ gold <= 0 \/ cid = "" THEN loss       \* 238, 240
             ELSE [c \in DOMAIN loss \cup {cid} |->
                     IF c = cid THEN GetOr(loss, cid, 0) + gold ELSE loss[c]])

ZeroTotals ==
  [earnedTotal |-> 0, earnedTrade |-> 0, earnedTrain |-> 0, earnedConquer |-> 0,
   earnedOther |-> 0, spentTotal |-> 0, spentOther |-> 0, lostConquest |-> 0]

\* goldSourcesByClientId[cid]: of its keys the totals read "trains" only
NoGoldSources == [trains |-> 0]

\* economyTracker.ts 260-263
Increase(curr, prev) == IF curr > prev THEN curr - prev ELSE 0

\* economyTracker.ts 265-271
DeltaTrain(curr, prev, currSources, prevSources) ==
  IF curr.train - prev.train <= 0
  THEN currSources.trains - prevSources.trains
  ELSE curr.train - prev.train

\* signed: the residual itself counts as outflow, whatever its sign
DeltaOutflow_Signed(residual) == 0 - residual

\* economyTracker.ts 276
DeltaOutflow(residual) == IF residual < 0 THEN 0 - residual ELSE 0

\* economyTracker.ts 275
DeltaEarnedOther(residual) == IF residual > 0 THEN residual ELSE 0

\* economyTracker.ts 254-302: the totals of one client after the tick
TotalsAfterTick(totals, goldNow, goldPrev, curr, prev, currSrc, prevSrc, conquestLoss) ==
  LET deltaBalance == goldNow - goldPrev                                     \* 256
      dWork == Increase(curr.work, prev.work)
      dWar == Increase(curr.war, prev.war)
      dTrade == Increase(curr.trade, prev.trade)
      dSteal == Increase(curr.steal, prev.steal)
      dTrain == DeltaTrain(curr, prev, currSrc, prevSrc)
      deltaKnownEarned == dWork + dWar + dTrade + dSteal + dTrain            \* 273
      residual == deltaBalance - deltaKnownEarned                            \* 274
      deltaEarnedOther == DeltaEarnedOther(residual)
      deltaOutflow == DeltaOutflow(residual)
      deltaLostConquest == MinBigInt(deltaOutflow, conquestLoss)             \* 279
      deltaSpentOther == deltaOutflow - deltaLostConquest                    \* 280
  IN  [earnedTotal |-> totals.earnedTotal + deltaKnownEarned + deltaEarnedOther,
       earnedTrade |-> totals.earnedTrade + dTrade,
       earnedTrain |-> totals.earnedTrain + dTrain,
       earnedConquer |-> totals.earnedConquer + dWar,
       earnedOther |-> totals.earnedOther + deltaEarnedOther,
       spentTotal |-> totals.spentTotal + deltaOutflow,
       spentOther |-> totals.spentOther + deltaSpentOther,
       lostConquest |-> totals.lostConquest + deltaLostConquest]

\* the clientIDs ensurePlayer registers, in the order of game.allPlayers()
RECURSIVE EnsuredPlayers(_)
EnsuredPlayers(ps) ==
  IF ps = <<>> THEN <<>>
  ELSE IF Head(ps).clientID = "" THEN EnsuredPlayers(Tail(ps))               \* 62
       ELSE <<Head(ps).clientID>> \o EnsuredPlayers(Tail(ps))

Range(seq) == {seq[i] : i \in 1..Len(seq)}

EmptyMap == [c \in {} |-> 0]

InitEconomy ==
  /\ ecoTick = 0
  /\ ecoPlayers = <<>>
  /\ clientIdByPlayerId = EmptyMap
  /\ totalsByClientId = EmptyMap
  /\ prevGoldByClientId = EmptyMap
  /\ prevGoldStatsByClientId = EmptyMap
  /\ goldSourcesByClientId = EmptyMap
  /\ prevGoldSourcesByClientId = EmptyMap
  /\ warnings = <<>>
  /\ IdsIdle
  /\ OrchIdle
  /\ InstallIdle
  /\ ConfigIdle
  /\ RngUnitIdle
  /\ SpawnIdle
  /\ ValidateIdle
  /\ TerrainIdle
  /\ ArgsIdle
  /\ InitWrapIdle
  /\ WarnIdle

\* init(game), economyTracker.ts 217-232; gold is p.gold() of each player
EconomyInit(gold) ==
  /\ ecoPlayers = <<>>
  /\ LET cids == EnsuredPlayers(GamePlayers)
     IN  /\ ecoPlayers' = cids                                                  \* 66
         /\ clientIdByPlayerId' =                                           \* 222-225
              [id \in {GamePlayers[i].id : i \in {j \in 1..Len(GamePlayers) :
                                                  GamePlayers[j].clientID # ""}} |->
                 (CHOOSE q \in Range(GamePlayers) : q.id = id).clientID]
         /\ totalsByClientId' = [c \in Range(cids) |-> ZeroTotals]           \* 82-95
         /\ prevGoldByClientId' = [c \in Range(cids) |-> gold[c]]            \* 209
         /\ prevGoldStatsByClientId' = [c \in Range(cids) |-> ZeroGoldStats] \* 210, 230
         /\ goldSourcesByClientId' = [c \in Range(cids) |-> NoGoldSources]   \* 96
         /\ prevGoldSourcesByClientId' = [c \in Range(cids) |-> NoGoldSources] \* 211
  /\ UNCHANGED ecoTick
  /\ UNCHANGED <<outsideEconomy, warnings>>

\* the engine calls the hooked addGold of a tracked player, economyTracker.ts
\* 103-130; callerFunction is the name found in the stack trace
HookedAddGold(cid, callerFunction, toAdd) ==
  /\ cid \in DOMAIN goldSourcesByClientId
  /\ goldSourcesByClientId[cid].trains + toAdd <= MaxSourceGold
  /\ goldSourcesByClientId' =                                               \* 123-126
       IF callerFunction = "trains"
       THEN [goldSourcesByClientId EXCEPT ![cid].trains = @ + toAdd]
       ELSE goldSourcesByClientId
  /\ UNCHANGED <<ecoTick, ecoPlayers, clientIdByPlayerId, totalsByClientId,
                 prevGoldByClientId, prevGoldStatsByClientId,
                 prevGoldSourcesByClientId>>
  /\ UNCHANGED <<outsideEconomy, warnings>>

\* afterTick(game, turnNumber, conquestEvents, isLast), economyTracker.ts
\* 233-315; gold is p.gold() and allStats is game.stats().stats() at the call
AfterTick(gold, allStats, conquestEvents) ==
  /\ ecoTick < MaxEcoTicks
  /\ ecoTick' = ecoTick + 1
  /\ LET loss == ConquestLossByClientId(conquestEvents, clientIdByPlayerId, EmptyMap)
         tracked == Range(ecoPlayers)
     IN  /\ totalsByClientId' =
              [c \in tracked |->
                 TotalsAfterTick(totalsByClientId[c], gold[c], prevGoldByClientId[c],
                                 ReadGoldStatsForClient(allStats[c]),
                                 prevGoldStatsByClientId[c],
                                 goldSourcesByClientId[c], prevGoldSourcesByClientId[c],
                                 GetOr(loss, c, 0))]
         /\ prevGoldByClientId' = [c \in tracked |-> gold[c]]                \* 308
         /\ prevGoldStatsByClientId' =                                      \* 309
              [c \in tracked |-> ReadGoldStatsForClient(allStats[c])]
         /\ prevGoldSourcesByClientId' =                                    \* 312
              [c \in tracked |-> goldSourcesByClientId[c]]
  /\ UNCHANGED <<ecoPlayers, clientIdByPlayerId, goldSourcesByClientId>>
  /\ UNCHANGED <<outsideEconomy, warnings>>

Clients == {"c1"}

NextEconomy ==
  \/ \E gold \in [Clients -> 0..MaxGold] : EconomyInit(gold)
  \/ \E cid \in Clients, callerFunction \in {"trains", "unknown"}, toAdd \in 0..MaxSourceGold :
       HookedAddGold(cid, callerFunction, toAdd)
  \/ \E gold \in [Clients -> 0..MaxGold], allStats \in [Clients -> PlayerStatsValues],
        conquestEvents \in ConquestEventLists :
       AfterTick(gold, allStats, conquestEvents)

SpecEconomy == InitEconomy /\ [][NextEconomy]_vars

(***************************************************************************)
(* Claims on the identifier wrappers (SpecIds).                            *)
(***************************************************************************)
AdditionalIdsKind == WarnAdditionalIds(0)[1]

RECURSIVE SumTo(_, _)
SumTo(f, n) == IF n = 0 THEN 0 ELSE f[n] + SumTo(f, n - 1)

\* C1: during an injection pass the original generator is invoked exactly
\* once per wrapped call, before and after the captured sequence is
\* exhausted: at every point original-call count = wrapped-call count, and
\* the streams have made exactly that many draws.
C1_OriginalCalledOncePerCall ==
  idPhase = "inject" =>
    /\ origCalls = wrappedCalls
    /\ Len(generatedIds) = wrappedCalls
    /\ SumTo(rngPos, NumIdStreams) = wrappedCalls

C1_Witness ==
  /\ idPhase = "inject"
  /\ Len(playerIdSequence) = 2
  /\ wrappedCalls = 4
  /\ rngPos[1] > 0 /\ rngPos[2] > 0

\* C2: with N captured identifiers the k-th wrapped call (0-based, counted
\* across all stream instances) returns captured[k] when k < N and the value
\* the original generator produced in that call when k >= N.
C2_VisibleIdentifiers ==
  idPhase = "inject" =>
    /\ Len(returnedIds) = wrappedCalls
    /\ \A k \in 1..Len(returnedIds) :
         returnedIds[k] = IF k <= Len(playerIdSequence)
                          THEN playerIdSequence[k]
                          ELSE generatedIds[k]

C2_Witness ==
  /\ idPhase = "inject"
  /\ Len(playerIdSequence) = 3
  /\ Len(returnedIds) = 4
  /\ returnedIds[1] # generatedIds[1]
  /\ returnedIds[4] = generatedIds[4]

\* C3: in one injection pass the warning list holds exactly one
\* "additional IDs" warning if the wrapped generator was called more often
\* than there are captured identifiers, however many extra calls followed,
\* and none if it was called at most that often.
C3_OneAdditionalIdsWarning ==
  idPhase = "inject" =>
    CountKind(warnings, AdditionalIdsKind)
      = IF wrappedCalls > Len(playerIdSequence) THEN 1 ELSE 0

C3_Witness ==
  /\ idPhase = "inject"
  /\ Len(playerIdSequence) = 1
  /\ wrappedCalls = 4
  /\ CountKind(warnings, AdditionalIdsKind) = 1

(***************************************************************************)
(* Claims on compareCommits (Spec).                                        *)
(***************************************************************************)
\* the position a stream has among the streams its own engine constructed
\* with the same seed
OrdInPass(strs, i) ==
  Cardinality({j \in 1..(i - 1) :
                 strs[j].engine = strs[i].engine /\ strs[j].seed = strs[i].seed})

SameStreamShape(strs) ==
  \A seed \in Seeds :
    Cardinality({i \in StreamsOf(strs, "ref") : strs[i].seed = seed})
      = Cardinality({i \in StreamsOf(strs, "cmp") : strs[i].seed = seed})

\* C4: when the comparison engine constructs its streams in the same per-seed
\* order as the reference engine, then right after restoreRngSnapshot(t) for a
\* captured tick t every stream the comparison pass created as the index-th
\* stream of a seed holds the state captured for (seed, index) at tick t.
C4_RestoreReachesComparisonStreams ==
  ( /\ pass = "cmp"
    /\ pc = "simTicking"
    /\ justRestored
    /\ SameStreamShape(streams)
    /\ tick \in DOMAIN capturedState.rngSnapshotsByTick ) =>
    LET snaps == capturedState.rngSnapshotsByTick[tick]
    IN  \A i \in StreamsOf(streams, "cmp") :
          \A k \in 1..Len(snaps) :
            (snaps[k].seed = streams[i].seed /\ snaps[k].index = OrdInPass(streams, i))
              => streams[i].state = snaps[k].state

\* C5: while the comparison pass runs, the registry holds no stream handle
\* that was registered during the reference pass.
C5_NoReferenceHandleDuringComparison ==
  (pass = "cmp" /\ pc \in {"simCreate", "simTicking"}) =>
    \A e \in 1..Len(registry.bySeed) :
      \A k \in 1..Len(registry.bySeed[e].list) :
        streams[registry.bySeed[e].list[k]].engine # "ref"

\* C6: in each pass cleanup is invoked exactly once after the hooks were
\* installed, whatever the outcome of the pass.
C6_CleanupExactlyOncePerPass ==
  \A p \in Passes :
    /\ cleanupCalls[p] <= installCalls[p]
    /\ passDone[p] => cleanupCalls[p] = 1

\* C8: if the simulation of the reference pass throws, compareCommits rejects
\* with that error and never installs injection hooks or starts the
\* comparison pass; if the simulation of the comparison pass throws,
\* compareCommits rejects and returns no ComparisonResult.
C8_SimulationFailureRejectsWithItsError ==
  /\ simThrew["ref"] =>
       /\ installCalls["cmp"] = 0
       /\ pass = "ref"
       /\ pc \in {"finally", "passExit", "rejected"}
       /\ pc = "passExit" => pending # NoError
       /\ pc = "rejected" => rejection = <<"simulateReplay", "ref">>
  /\ simThrew["cmp"] =>
       /\ pc \in {"finally", "passExit", "rejected"}
       /\ pc = "passExit" => pending # NoError

RECURSIVE IndexOf(_, _)
\* the first position of e in log, 0 when it is not there
IndexOf(log, e) ==
  IF log = <<>> THEN 0
  ELSE IF Head(log) = e THEN 1
  ELSE IF IndexOf(Tail(log), e) = 0 THEN 0 ELSE 1 + IndexOf(Tail(log), e)

RestoreAtInit == <<"restoreRngSnapshot", 0>>
ValidateAtInit == <<"validateGameStateSnapshotTick0", 0>>

\* C10 as claimed: on the on-initialized callback of the comparison pass the
\* tick-0 stream restore is performed first and the tick-0 validation second.
C10_RestoreBeforeValidate ==
  IndexOf(callLog["cmp"], ValidateAtInit) > 0 =>
    /\ IndexOf(callLog["cmp"], RestoreAtInit) > 0
    /\ IndexOf(callLog["cmp"], RestoreAtInit) < IndexOf(callLog["cmp"], ValidateAtInit)

\* C10 amended: on the on-initialized callback of the comparison pass the
\* tick-0 validation is performed first and the tick-0 stream restore second,
\* both before any tick executes.
C10_ValidateBeforeRestore ==
  (pass = "cmp" /\ pc \in {"simTicking", "finally", "passExit", "rejected", "returned"}
     /\ callLog["cmp"] # <<>>) =>
    /\ Len(callLog["cmp"]) >= 2
    /\ callLog["cmp"][1] = ValidateAtInit
    /\ callLog["cmp"][2] = RestoreAtInit

C10_Witness ==
  /\ pass = "cmp"
  /\ pc = "simTicking"
  /\ tick = 1
  /\ IndexOf(callLog["cmp"], ValidateAtInit) = 1
  /\ IndexOf(callLog["cmp"], RestoreAtInit) = 2

(***************************************************************************)
(* Claims on install / cleanup (SpecInstall).                              *)
(***************************************************************************)
\* C7: install followed by cleanup is the identity on the entry points: after
\* installStateCapture (resp. installStateInjection) and then cleanup, each of
\* nextID, init, loadTerrainMap and getConfig is again the function it was
\* before the install, for every subset of them that exists on the runtime.
C7_InstallThenCleanupIsIdentity ==
  hkStage = "cleaned" => entry = entryBefore

C7_Witness ==
  /\ hkStage = "cleaned"
  /\ hkKind = "injection"
  /\ hkInstalls = 2
  /\ Len(originals) = 3
  /\ entry["init"] = Undefined
  /\ entry["nextID"] = OriginalFn

(***************************************************************************)
(* Claims on the getConfig wrappers (SpecConfig).                          *)
(***************************************************************************)
\* C9: no failure raised by the analyzer's own bookkeeping inside a hook
\* propagates into the simulation: when the engine's call returned, the
\* wrapped call returns too.
C9_BookkeepingFailureNeverPropagates ==
  (cfgCalls > 0 /\ ~lastCall.engineThrew) => lastCall.threw = "none"

\* C14: during a capture pass, after any sequence of identifier-generation
\* calls, the captured sequence equals the values the original generator
\* returned, one entry per call in call order, and every caller received the
\* value the original generator produced; getCapturedState hands that
\* sequence on as playerIdSequence.
C14_CapturedIdsAreTheGeneratedIds ==
  /\ idPhase = "capture" =>
       /\ capturedIds = generatedIds
       /\ returnedIds = generatedIds
       /\ Len(capturedIds) = wrappedCalls
       /\ origCalls = wrappedCalls
  /\ idPhase = "inject" => playerIdSequence = capturedIds

C14_Witness ==
  /\ idPhase = "capture"
  /\ Len(capturedIds) = 3
  /\ capturedIds[1][2] # capturedIds[2][2]
  /\ returnedIds = capturedIds

(***************************************************************************)
(* Claims on the spawn phase (SpecSpawnPhase).                             *)
(***************************************************************************)
\* the ticks at whose boundary a pass called fn
TicksOf(log, fn) == {log[i][2] : i \in {j \in 1..Len(log) : log[j][1] = fn}}

Min(a, b) == IF a < b THEN a ELSE b

\* both passes ran to their end and no game-state accessor threw in the
\* reference pass
BothPassesRan ==
  /\ pc = "returned"
  /\ capturedState.gameStateSnapshotTick0.present
  /\ numTicks >= SpawnPhaseTicks => capturedState.gameStateSnapshotTick30.present

\* C11 as claimed: after a reference pass and a comparison pass over the same
\* replay in which no accessor throws, the ticks at whose boundary the
\* comparison pass invoked restoreRngSnapshot are the ticks for which the
\* reference pass recorded a stream snapshot: 0 and every executed tick up to
\* 30, none after 30.
C11_RestoreAtRecordedBoundaries ==
  BothPassesRan =>
    /\ TicksOf(callLog["cmp"], "restoreRngSnapshot")
         = DOMAIN capturedState.rngSnapshotsByTick
    /\ DOMAIN capturedState.rngSnapshotsByTick = 0..Min(numTicks, SpawnPhaseTicks)

\* C11 amended: the same, provided the registry exists in the reference pass
\* (the reference engine's instrumented PseudoRandom registered a stream
\* before the game was initialised); the comparison pass invokes
\* restoreRngSnapshot at 0 and after every tick up to 30 in any case.
C11_RestoreAtRecordedBoundariesWithRegistry ==
  BothPassesRan =>
    /\ TicksOf(callLog["cmp"], "restoreRngSnapshot") = 0..Min(numTicks, SpawnPhaseTicks)
    /\ StreamsOf(streams, "ref") # {} =>
         DOMAIN capturedState.rngSnapshotsByTick = 0..Min(numTicks, SpawnPhaseTicks)

C11_Witness ==
  /\ BothPassesRan
  /\ numTicks = SpawnPhaseTicks + 1
  /\ StreamsOf(streams, "ref") # {}
  /\ SpawnPhaseTicks \in TicksOf(callLog["cmp"], "restoreRngSnapshot")
  /\ SpawnPhaseTicks \in DOMAIN capturedState.rngSnapshotsByTick

\* C13: whatever the length of the reference pass, every key of
\* rngSnapshotsByTick, in the capture closure and in the CapturedState the
\* pass returns, is a tick in 0..30.
C13_SnapshotKeysWithinSpawnPhase ==
  /\ DOMAIN rngSnapshotsByTick \subseteq 0..SpawnPhaseTicks
  /\ DOMAIN capturedState.rngSnapshotsByTick \subseteq 0..SpawnPhaseTicks

C13_Witness ==
  /\ passDone["ref"]
  /\ pass = "cmp"
  /\ numTicks = SpawnPhaseTicks + 1
  /\ DOMAIN capturedState.rngSnapshotsByTick = 0..SpawnPhaseTicks

(***************************************************************************)
(* Claims on the registry and its streams (SpecRng).                       *)
(***************************************************************************)
\* C12: captureRngSnapshot(tick) is a no-op for every tick outside 0..30:
\* whoever calls it, the per-tick snapshot map gets no key below 0 or above 30.
C12_CaptureIgnoresTicksOutsideSpawnPhase ==
  pc = "unit" => DOMAIN rngSnapshotsByTick \subseteq 0..SpawnPhaseTicks

C18_IndicesRestartAfterReset ==
  (pc = "unit" /\ rngHist.resets > 0) =>
    \A h \in sinceReset :
      streams[h].index
        = Cardinality({g \in sinceReset : g < h /\ streams[g].seed = streams[h].seed})

C18_Witness ==
  /\ pc = "unit"
  /\ rngHist.resets = 1
  /\ Len(streams) = 3
  /\ streams[1].seed = streams[3].seed
  /\ streams[2].seed = streams[3].seed
  /\ sinceReset = {3}
  /\ streams[3].index = 0

\* C19: after any sequence of constructions and no reset, for every seed the
\* registry's list holds the seed's streams in creation order, the stream at
\* position i carries index i, and the indices are 0..n-1 without gaps or
\* duplicates, whatever was constructed under other seeds.
C19_PerSeedCreationOrderIndices ==
  (pc = "unit" /\ rngHist.resets = 0) =>
    \A seed \in Seeds :
      LET list == ListOf(registry.bySeed, seed)
          ofSeed == {h \in 1..Len(streams) : streams[h].seed = seed}
      IN  /\ {list[i] : i \in 1..Len(list)} = ofSeed
          /\ Len(list) = Cardinality(ofSeed)
          /\ \A i \in 1..Len(list) : streams[list[i]].index = i - 1
          /\ \A i, j \in 1..Len(list) : i < j => list[i] < list[j]

C19_Witness ==
  /\ pc = "unit"
  /\ rngHist.resets = 0
  /\ Len(streams) = 3
  /\ streams[1].seed = 1 /\ streams[2].seed = 2 /\ streams[3].seed = 1
  /\ streams[3].index = 1

(***************************************************************************)
(* Claims on the init wrappers (SpecSpawn).                                *)
(***************************************************************************)
\* the positions in the schedule that hold a spawn execution of player id
SpawnsOf(id) ==
  {i \in 1..Len(scheduled) :
     /\ scheduled[i].exec.kind = "SpawnExecution"
     /\ scheduled[i].exec.hasId
     /\ scheduled[i].exec.id = id}

\* those of them that carry a numeric tile whose cell lookup succeeded
RecordableSpawnsOf(id) ==
  {i \in SpawnsOf(id) : scheduled[i].exec.hasTile /\ ~scheduled[i].cellThrows}

Last(S) == CHOOSE i \in S : \A j \in S : j <= i

\* C15 as claimed: during a capture pass the spawn map holds for each player
\* identifier the tile, coordinates, name and type of the last spawn
\* execution scheduled for it, and no entry for identifiers that had none.
C15_LastSpawnExecutionWins ==
  spPhase = "ref" =>
    \A id \in PlayerIds :
      IF SpawnsOf(id) = {}
      THEN id \notin DOMAIN spawnAssignmentsByPlayerId
      ELSE /\ id \in DOMAIN spawnAssignmentsByPlayerId
           /\ spawnAssignmentsByPlayerId[id]
                = SpawnRecord(scheduled[Last(SpawnsOf(id))].exec)

\* C15 amended: the spawn map holds for each player identifier the tile,
\* coordinates, name and type of the last spawn execution scheduled for it
\* that carried a numeric tile and whose cell lookup did not throw, and no
\* entry for identifiers that had no such execution.
C15_LastRecordableSpawnExecutionWins ==
  spPhase = "ref" =>
    /\ DOMAIN spawnAssignmentsByPlayerId \subseteq PlayerIds
    /\ \A id \in PlayerIds :
         IF RecordableSpawnsOf(id) = {}
         THEN id \notin DOMAIN spawnAssignmentsByPlayerId
         ELSE /\ id \in DOMAIN spawnAssignmentsByPlayerId
              /\ spawnAssignmentsByPlayerId[id]
                   = SpawnRecord(scheduled[Last(RecordableSpawnsOf(id))].exec)

C15_Witness ==
  /\ spPhase = "ref"
  /\ Cardinality(RecordableSpawnsOf("p1")) = 2
  /\ Cardinality(SpawnsOf("p1")) = 3
  /\ spawnAssignmentsByPlayerId["p1"].tile = 2
  /\ "p2" \notin DOMAIN spawnAssignmentsByPlayerId

C20_SameObservablesNoWarning ==
  /\ (vStage = "validate30" /\ sameObserved.at0) => warnings = <<>>
  /\ (vStage = "done" /\ sameObserved.at0 /\ sameObserved.at30) => warnings = <<>>

C20_Witness ==
  /\ vStage = "done"
  /\ sameObserved.at0
  /\ sameObserved.at30
  /\ Len(snapshotTick30.playersWithTiles) = 2
  /\ snapshotTick30.playersWithTiles[1].tileCount # snapshotTick30.playersWithTiles[2].tileCount
  /\ ~snapshotTick30.hash.null
  /\ snapshotTick0.hash.null

\* C21: tick-0 validation against a present captured snapshot appends one
\* warning for each observable that differs: one when the player count
\* differs, one when the identifier sets differ, one when the integrity hash
\* differs, where a hash that only one of the two passes could compute counts
\* as a difference.
C21_WarningPerDifferingObservableTick0 ==
  (vStage = "validate30" /\ snapshotTick0.present /\ ~diffObserved.at0.threw) =>
    /\ CountKind(appended.at0, WarnPlayerCount(0)[1])
         = IF diffObserved.at0.count THEN 1 ELSE 0
    /\ CountKind(appended.at0, WarnPlayerIds(0)[1])
         = IF diffObserved.at0.ids THEN 1 ELSE 0
    /\ CountKind(appended.at0, WarnHash(0)[1])
         = IF diffObserved.at0.hash THEN 1 ELSE 0

C23_NullSnapshotGivesOneWarning ==
  /\ (vStage \in {"validate30", "done", "returned"} /\ ~snapshotTick0.present) =>
       appended.at0 = <<WarnNoTick0>>
  /\ (appended.validated30 /\ ~snapshotTick30.present) =>
       /\ vStage \in {"done", "returned"}
       /\ appended.at30 = <<WarnNoTick30>>
  /\ (vStage = "returned" /\ ~snapshotTick0.present /\ ~snapshotTick30.present
        /\ appended.validated30) =>
       vResult.injectionWarnings = <<WarnNoTick0, WarnNoTick30>>

C23_Witness ==
  /\ vStage = "returned"
  /\ ~snapshotTick0.present
  /\ ~snapshotTick30.present
  /\ appended.validated30
  /\ diffObserved.at30.count
  /\ vResult.injectionWarnings = <<WarnNoTick0, WarnNoTick30>>

(***************************************************************************)
(* Claims on the terrain wrappers (SpecTerrain).                           *)
(***************************************************************************)
\* each pass loaded its terrain once, with a gameMap and a readable manifest
TerrainLoadedOncePerPass ==
  /\ tLoaded.ref.n = 1 /\ tLoaded.cmp.n = 1
  /\ tLoaded.ref.result.hasGameMap /\ tLoaded.cmp.result.hasGameMap
  /\ ~tLoaded.ref.manifestThrew /\ ~tLoaded.cmp.manifestThrew

\* C24: if the terrain data the comparison pass loaded differs in content from
\* the terrain data the reference pass loaded, the warning list holds exactly
\* one map-hash-mismatch warning at the end of the run, whatever the number of
\* ticks; if the content is identical it holds none.
C24_OneMapHashWarningIffTerrainDiffers ==
  (tPass = "done" /\ TerrainLoadedOncePerPass) =>
    CountKind(warnings, WarnMapHash[1])
      = IF tLoaded.ref.result.content # tLoaded.cmp.result.content THEN 1 ELSE 0

\* the positions at which two nation lists of the same length differ in the
\* name or in a coordinate
DifferingPositions(ref, current) ==
  {i \in 1..Len(ref) : ref[i] # current[i]}

\* what the manifest check of one call appended, for the manifest it read
NationCheckAppended(ref, current, added) ==
  IF Len(ref) # Len(current)
  THEN /\ Occurrences(added, WarnNationCount) = 1
       /\ CountKind(added, WarnNation(0)[1]) = 0
  ELSE /\ Occurrences(added, WarnNationCount) = 0
       /\ \A i \in 1..Len(ref) :
            Occurrences(added, WarnNation(i))
              = IF i \in DifferingPositions(ref, current) THEN 1 ELSE 0
       /\ CountKind(added, WarnNation(0)[1])
            = Cardinality(DifferingPositions(ref, current))

\* C37: on each call of the wrapped terrain loader in the injection pass that
\* read the current manifest, the check appends exactly one nation-count
\* warning and no per-nation warning when the number of nations differs from
\* the captured manifest, and otherwise one warning per position whose name or
\* coordinates differ, none when the manifests are equal position by position.
C37_NationCheckWarnsPerDifference ==
  [][\A r \in TerrainResults, m \in Manifests :
       CmpLoadsTerrain(FALSE, r, m, FALSE) =>
         NationCheckAppended(capturedMap.nationManifest, m.nations,
                             AppendedBy(warnings, warnings'))]_vars

\* the comparison pass loaded the terrain and the check found two nations at
\* the captured positions of which only the second differs
C37_Witness ==
  /\ tPass = "cmp"
  /\ tLoaded.cmp.n = 1
  /\ ~tLoaded.cmp.manifestThrew
  /\ Len(capturedMap.nationManifest) = 2
  /\ Occurrences(warnings, WarnNation(2)) = 1
  /\ Occurrences(warnings, WarnNation(1)) = 0
  /\ Occurrences(warnings, WarnNationCount) = 0

(***************************************************************************)
(* Claims on the comparison of the configuration (SpecConfig).             *)
(***************************************************************************)
\* the last call was a call of the injection pass's wrapper that reached the
\* comparison with a captured configuration
ComparedConfig ==
  /\ cfgPass = "cmp"
  /\ cfgCalls > 0
  /\ ~lastCall.engineThrew
  /\ ~lastCall.config.accessorThrows
  /\ DOMAIN capturedConfig # {}

CaptureTick0Threw ==
  /\ pass = "ref" /\ pc = "simCreate" /\ pc' = "simTicking"
  /\ callLog'["ref"] = Append(callLog["ref"], <<"captureGameStateSnapshotTick0", 0>>)

\* the step is the reference pass's onAfterTick of tick 30 and
\* captureGameStateSnapshotTick30 threw in it
CaptureTick30Threw ==
  /\ pass = "ref" /\ pc = "simTicking" /\ tick' = SpawnPhaseTicks /\ tick # tick'
  /\ callLog'["ref"] = callLog["ref"] \o <<<<"captureRngSnapshot", SpawnPhaseTicks>>,
                                           <<"captureGameStateSnapshotTick30",
                                             SpawnPhaseTicks>>>>

\* the captured fields the snapshot functions never write
OtherCapturedFields ==
  <<capturedIds, spawnAssignmentsByPlayerId, mapDataHash, nationManifest, configValues>>

\* C26: if a game-state accessor throws while captureGameStateSnapshotTick0
\* (resp. captureGameStateSnapshotTick30) builds its snapshot, the exception
\* does not propagate, the corresponding snapshot field stays null, and every
\* other captured field (identifier sequence, spawn map, map hash, config
\* values, the other snapshot, the stream snapshots) is as the call found it.
C26_ThrowingCaptureLeavesCapturedStateAlone ==
  [][(CaptureTick0Threw =>
        /\ gameStateSnapshotTick0' = NullSnapshot
        /\ pending' = NoError
        /\ UNCHANGED <<gameStateSnapshotTick30, rngSnapshotsByTick, OtherCapturedFields>>)
     /\ (CaptureTick30Threw =>
           /\ gameStateSnapshotTick30' = NullSnapshot
           /\ pending' = NoError
           /\ rngSnapshotsByTick' = CaptureRngSnapshot(SpawnPhaseTicks, registry, streams',
                                                       rngSnapshotsByTick)
           /\ UNCHANGED <<gameStateSnapshotTick0, OtherCapturedFields>>)]_vars

C26_Witness ==
  /\ pass = "ref"
  /\ pc = "simTicking"
  /\ tick = SpawnPhaseTicks
  /\ callLog["ref"][Len(callLog["ref"])] = <<"captureGameStateSnapshotTick30", SpawnPhaseTicks>>
  /\ gameStateSnapshotTick30 = NullSnapshot
  /\ gameStateSnapshotTick0.present
  /\ SpawnPhaseTicks \in DOMAIN rngSnapshotsByTick

(***************************************************************************)
(* Claims on the order of the two passes (SpecSpawnPhase).                 *)
(***************************************************************************)
\* C27: in compareCommits the two passes never overlap: injection hooks are
\* installed only after the reference pass's simulation has finished and its
\* capture hooks have been uninstalled, and the CapturedState handed to the
\* injection pass is the state as of the end of the reference pass.
C27_PassesNeverOverlap ==
  /\ ~({"capture", "injection"} \subseteq installed)
  /\ (installCalls["cmp"] > 0 \/ pass = "cmp") =>
       /\ passDone["ref"]
       /\ ~simThrew["ref"]
       /\ numTicks \in 1..SpawnPhaseTicks =>
            numTicks \in TicksOf(callLog["ref"], "captureRngSnapshot")
       /\ cleanupCalls["ref"] = 1
       /\ "capture" \notin installed
       /\ capturedState = GetCapturedState(rngSnapshotsByTick, gameStateSnapshotTick0,
                                           gameStateSnapshotTick30)
  /\ installCalls["cmp"] <= 1

C27_Witness ==
  /\ pass = "cmp"
  /\ pc = "simTicking"
  /\ installed = {"injection"}
  /\ tick = 1
  /\ capturedState.gameStateSnapshotTick0.present
  /\ capturedState.gameStateSnapshotTick30.present
  /\ DOMAIN capturedState.rngSnapshotsByTick = 0..SpawnPhaseTicks

(***************************************************************************)
(* Claims on the CapturedState as an input of the injection pass.          *)
(***************************************************************************)
\* the injection pass is running, in whichever specification
InjectionRunning ==
  \/ pass = "cmp"
  \/ idPhase = "inject"
  \/ spPhase = "cmp"
  \/ cfgPass = "cmp"
  \/ tPass \in {"cmp", "done"}
  \/ vStage \in {"validate0", "validate30", "done", "returned"}

\* the fields of the CapturedState
CapturedStateFields ==
  <<capturedState, playerIdSequence, capturedSpawn, capturedConfig, capturedMap,
    snapshotTick0, snapshotTick30>>

\* C28: no operation of the injection pass (identifier interception, spawn
\* override, stream restore, terrain and config validation, snapshot
\* validation) modifies the CapturedState it was given.
C28_InjectionLeavesCapturedStateAlone ==
  [][InjectionRunning => UNCHANGED CapturedStateFields]_vars

C28_Witness ==
  /\ pc = "returned"
  /\ numTicks = SpawnPhaseTicks + 1
  /\ SpawnPhaseTicks \in TicksOf(callLog["cmp"], "restoreRngSnapshot")
  /\ SpawnPhaseTicks \in TicksOf(callLog["cmp"], "validateGameStateSnapshotTick30")
  /\ DOMAIN capturedState.rngSnapshotsByTick = 0..SpawnPhaseTicks
  /\ capturedState.gameStateSnapshotTick30.present
  /\ warnings # <<>>

(***************************************************************************)
(* Claims on runtimes that lack an optional internal                       *)
(***************************************************************************)

\* the properties for which the installed hooks recorded an original
WrappedProps == {originals[i].prop : i \in 1..Len(originals)}

\* C29: when the runtime lacks the identifier-generator class, the runner's
\* init, the terrain loader or the config loader, the install completes, it
\* wraps exactly the entry points that exist and leaves the missing ones
\* undefined, the only trace is the non-fatal warning that the injection
\* pushes about the missing identifier generator, and the pass can go on to
\* its cleanup.
C29_MissingInternalsAreSkipped ==
  hkStage = "installed" =>
    /\ \A e \in EntryPoints :
         IF entryBefore[e] = Undefined
         THEN entry[e] = Undefined /\ e \notin WrappedProps
         ELSE /\ entry[e] = WrapperFn(IF hkKind = "capture" THEN "captureWrapper"
                                      ELSE "injectionWrapper", hkInstalls)
              /\ e \in WrappedProps
    /\ Len(originals) = Cardinality({e \in EntryPoints : entryBefore[e] # Undefined})
    /\ hkKind = "injection" =>
         warnings = IF entryBefore["nextID"] = Undefined
                    THEN <<WarnNoPseudoRandom>> ELSE <<>>
    /\ \A i \in 1..Len(warnings) : warnings[i] = WarnNoPseudoRandom
    /\ ENABLED CleanupOnRuntime

C29_Witness ==
  /\ hkStage = "installed"
  /\ hkKind = "injection"
  /\ entryBefore["nextID"] = Undefined
  /\ entryBefore["init"] = Undefined
  /\ entry["getConfig"].fn = "injectionWrapper"
  /\ warnings = <<WarnNoPseudoRandom>>
  /\ hkCalls > 0

(***************************************************************************)
(* Claims on the command line                                              *)
(***************************************************************************)

\* C30: a command line made of a replay argument followed by
\* --compareAgainst and a 40-hex commit is accepted by parseArgs, and the main
\* module then selects the comparison with that commit as the comparison
\* version (unless the replay itself carries no usable commit).
C30_CompareAgainstSelectsComparison ==
  (/\ Len(argv) = 3
   /\ argv[1] \in {ReplayId}
   /\ argv[2] = "--compareAgainst"
   /\ Is40Hex(argv[3]))
  => /\ argPc # "threw"
     /\ argPc \notin {"usage", "single"}
     /\ argPc = "comparison" => comparisonRun.comparison = argv[3]

\* the main module is past the usage test and was asked for a comparison
ComparisonRequested ==
  /\ argPc \notin {"idle", "parsing", "threw", "returned", "usage"}
  /\ Truthy(Field(parsed, "compareAgainst"))

\* C31: when a comparison is requested and the replay has no commit, or the
\* replay's commit or the --compareAgainst value is not a 40-hex string, the
\* main module throws with no engine version checked out, no pass started and
\* compareCommits never called.
C31_BadCommitThrowsBeforeCheckout ==
  (/\ ComparisonRequested
   /\ \/ replayGitCommit = Null
      \/ ~Is40Hex(replayGitCommit)
      \/ ~Is40Hex(Field(parsed, "compareAgainst")))
  => /\ argPc = "rejected"
     /\ argError[1] \in {"Invalid replay gitCommit",
                         "Cannot compare commits: replay missing gitCommit",
                         "Invalid --compareAgainst commit"}
     /\ mainLog = <<>>
     /\ comparisonRun = NoComparisonRun

C31_Witness ==
  /\ ComparisonRequested
  /\ replayGitCommit = ReplayCommit40
  /\ Field(parsed, "compareAgainst") = ShortCommit
  /\ argPc = "rejected"
  /\ argError = <<"Invalid --compareAgainst commit", ShortCommit>>
  /\ mainLog = <<>>

(***************************************************************************)
(* Claims on the hooks' effects                                            *)
(***************************************************************************)

\* C32: once the on-initialized callback of the reference pass has run with a
\* stream registry present, a stream snapshot of tick 0 is recorded, whether
\* or not the game-state accessors threw while the tick-0 game-state snapshot
\* was built.
C32_Tick0StreamSnapshotAlwaysRecorded ==
  (/\ pass = "ref"
   /\ pc = "simTicking"
   /\ tick = 0
   /\ registry.defined)
  => 0 \in DOMAIN rngSnapshotsByTick

\* C33: the addExecution wrapper is on the game only while the wrapped init
\* runs: once init has returned or thrown the property holds the engine's
\* original function again (or is as undefined as it was), and a call made
\* after init reaches the original with its arguments as they are and leaves
\* the recorded spawn assignments alone, in both passes.
C33_WrapperOnlyDuringInit ==
  /\ addExecution = "patched" => iwStage = "inInit"
  /\ iwStage \in {"returned", "threw"} => addExecution \in {"original", "undefined"}
  /\ iwHanded.during = "returned" =>
       /\ iwHanded.via = "original"
       /\ iwHanded.received = iwHanded.execs
       /\ iwHanded.mapAfter = iwHanded.mapBefore

C33_Witness ==
  /\ iwPass = "cmp"
  /\ iwStage = "returned"
  /\ addExecution = "original"
  /\ iwHanded.during = "returned"
  /\ Len(iwHanded.execs) = 1
  /\ iwHanded.execs[1].kind = "SpawnExecution"
  /\ iwHanded.execs[1].hasId
  /\ iwHanded.execs[1].id \in DOMAIN iwCaptured
  /\ iwHanded.execs[1].tile # iwCaptured[iwHanded.execs[1].id].tile
  /\ iwHanded.received = iwHanded.execs

\* the captured snapshot restoreRngSnapshot(t) reads
SnapsAt(captured, t) ==
  IF t \in DOMAIN captured.rngSnapshotsByTick THEN captured.rngSnapshotsByTick[t] ELSE <<>>

\* the live streams the entries of a snapshot name through the registry
NamedStreams(snaps, reg) ==
  IF ~reg.defined THEN {}
  ELSE {ListOf(reg.bySeed, snaps[k].seed)[snaps[k].index + 1] :
          k \in {j \in 1..Len(snaps) :
                   snaps[j].index + 1 <= Len(ListOf(reg.bySeed, snaps[j].seed))}}

C35_WrappedGetConfigIsTransparent ==
  (cfgCalls > 0 /\ ~lastCall.engineThrew) =>
    /\ lastCall.threw = "none"
    /\ lastCall.ret = lastCall.config

(***************************************************************************)
(* Claims on the injection warning list                                    *)
(***************************************************************************)

IsPrefix(a, b) == Len(a) <= Len(b) /\ SubSeq(b, 1, Len(a)) = a

\* C36: from the install on, every step of the comparison pass leaves the
\* warnings already in the list where they are (it only appends), and the
\* injectionWarnings of the ComparisonResult are all the warnings pushed in
\* the pass, by the install, the hooks and the validators, in push order.
C36_WarningsAppendOnlyAndAllReturned ==
  [][/\ wPc # "install" => IsPrefix(warnings, warnings')
     /\ wPc' = "returned" =>
          resultWarnings' = [i \in 1..Len(wLog') |-> wLog'[i][2]]]_vars

C36_Witness ==
  /\ wPc = "returned"
  /\ wValidations = 2
  /\ Len(wLog) = 3
  /\ wLog[1][1] = "install"
  /\ wLog[2][1] = "validation"
  /\ wLog[3][1] = "hook"
  /\ resultWarnings = warnings
  /\ Len(resultWarnings) = 3

(***************************************************************************)
(* Claims on the economy tracker (SpecEconomy).                            *)
(***************************************************************************)
\* the two relations between the gold totals of every tracked client
EconomyTotalsBalanced ==
  \A c \in DOMAIN totalsByClientId :
    LET t == totalsByClientId[c]
    IN  /\ t.spentTotal = t.spentOther + t.lostConquest
        /\ t.earnedTotal >= t.earnedTrade + t.earnedConquer + t.earnedOther

\* a step decreases none of the four totals of a client tracked before it
EconomyTotalsNeverDecrease ==
  \A c \in DOMAIN totalsByClientId :
    LET t == totalsByClientId[c]
        u == totalsByClientId'[c]
    IN  /\ u.spentTotal >= t.spentTotal
        /\ u.spentOther >= t.spentOther
        /\ u.lostConquest >= t.lostConquest
        /\ u.earnedOther >= t.earnedOther

====
